---- MODULE Spec2Model ----
(***************************************************************************)
(* Model of the rule-driven masking engine (Anonymizer) and of the restore *)
(* engine (Decryptor) of iiwish/data-anonymization.                        *)
(*                                                                         *)
(* Go strings are sequences of one-character strings.  Go maps are         *)
(* functions whose DOMAIN is the set of keys present.  JSON values are      *)
(* tagged records: [k |-> "null"], [k |-> "str", s], [k |-> "num", ty, u,  *)
(* den], [k |-> "arr", items], [k |-> "obj", m].                            *)
(***************************************************************************)
EXTENDS Integers, Sequences, FiniteSets, TLC

(***************************************************************************)
(* Go runtime helpers: strings and maps                                    *)
(***************************************************************************)

\* The empty Go map.
EmptyMap == << >>

\* m[k] = v on a Go map.
MapPut(m, k, v) == [x \in (DOMAIN m) \cup {k} |-> IF x = k THEN v ELSE m[x]]

\* strings.HasPrefix(s, p)
HasPrefix(s, p) == Len(p) <= Len(s) /\ SubSeq(s, 1, Len(p)) = p

\* s[n:] with n counted in characters dropped
Drop(s, n) == SubSeq(s, n + 1, Len(s))

\* strings.Contains(s, sub)
Contains(s, sub) == \E i \in 1..(Len(s) - Len(sub) + 1) : SubSeq(s, i, i + Len(sub) - 1) = sub

\* strings.ReplaceAll for a non-empty old: non-overlapping matches, left to right.
RECURSIVE ReplaceNonEmpty(_, _, _)
ReplaceNonEmpty(s, old, new) ==
    IF Len(s) < Len(old) THEN s
    ELSE IF HasPrefix(s, old) THEN new \o ReplaceNonEmpty(Drop(s, Len(old)), old, new)
    ELSE <<Head(s)>> \o ReplaceNonEmpty(Tail(s), old, new)

\* strings.ReplaceAll for old = "": new is inserted before every character and at the end.
RECURSIVE ReplaceEmpty(_, _)
ReplaceEmpty(s, new) ==
    IF s = << >> THEN new ELSE new \o <<Head(s)>> \o ReplaceEmpty(Tail(s), new)

\* strings.ReplaceAll(s, old, new)
ReplaceAll(s, old, new) ==
    IF old = << >> THEN ReplaceEmpty(s, new) ELSE ReplaceNonEmpty(s, old, new)

\* Sequence of the decimal digits of a natural number ("%d").
RECURSIVE FmtNat(_)
FmtNat(n) ==
    IF n < 10 THEN <<SubSeq(<<"0","1","2","3","4","5","6","7","8","9">>, n + 1, n + 1)[1]>>
    ELSE FmtNat(n \div 10) \o FmtNat(n % 10)

\* fmt.Sprintf("%d", n) for an integer
FmtInt(n) == IF n < 0 THEN <<"-">> \o FmtNat(0 - n) ELSE FmtNat(n)

(***************************************************************************)
(* Numbers.  A number is the exact rational u/den in lowest terms, den > 0, *)
(* tagged with its Go type (JSON decoding always yields float64).          *)
(***************************************************************************)

Abs(n) == IF n < 0 THEN 0 - n ELSE n

RECURSIVE Gcd(_, _)
Gcd(a, b) == IF b = 0 THEN a ELSE Gcd(b, a % b)

\* The number u/den of Go type ty, in lowest terms.
Num(ty, u, den) ==
    LET g == Gcd(Abs(u), den)
    IN [k |-> "num", ty |-> ty, u |-> u \div g, den |-> den \div g]

F64(u, den) == Num("float64", u, den)

Str(s) == [k |-> "str", s |-> s]

Null == [k |-> "null"]

Arr(items) == [k |-> "arr", items |-> items]

Obj(m) == [k |-> "obj", m |-> m]

\* Width of the signed integers of the model; the code computes on int64.
IntBits == 16

RECURSIVE Pow2(_)
Pow2(n) == IF n = 0 THEN 1 ELSE 2 * Pow2(n - 1)

MinInt == 0 - Pow2(IntBits - 1)

MaxInt == Pow2(IntBits - 1) - 1

\* The value a signed machine integer holds after an operation whose exact result is n.
Wrap(n) == ((n - MinInt) % Pow2(IntBits)) + MinInt

\* int64(v) of a float64: the fraction is discarded; for a value outside the range of int64
\* the result depends on the build (the smallest integer on amd64, the nearest bound on arm64).
Int64OfFloat(v) ==
    LET t == IF v.u < 0 THEN 0 - ((0 - v.u) \div v.den) ELSE v.u \div v.den
    IN IF MinInt <= t /\ t <= MaxInt THEN {t}
       ELSE IF t < 0 THEN {MinInt}
       ELSE {MinInt, MaxInt}

\* float64(n) of an int64: the largest integer has no float64 of its own and rounds up.
Float64OfInt(n) == IF n = MaxInt THEN F64(MaxInt + 1, 1) ELSE F64(n, 1)

(***************************************************************************)
(* fmt.Sprintf("%v", number): for float64 this is %g with the shortest     *)
(* digit string, %e form when the decimal exponent is < -4 or >= 6.         *)
(* Defined for decimals with at most FracDigits fractional digits.         *)
(***************************************************************************)

\* Number of fractional decimal digits the model's float64 values carry.
FracDigits == 5

RECURSIVE Pow10(_)
Pow10(n) == IF n = 0 THEN 1 ELSE 10 * Pow10(n - 1)

RECURSIVE StripZeros(_)
StripZeros(ds) ==
    IF Len(ds) > 1 /\ ds[Len(ds)] = "0" THEN StripZeros(SubSeq(ds, 1, Len(ds) - 1)) ELSE ds

RECURSIVE Zeros(_)
Zeros(n) == IF n <= 0 THEN << >> ELSE <<"0">> \o Zeros(n - 1)

\* strconv %e layout: d[.ddd]e(+|-)dd
FmtE(mant, exp) ==
    <<mant[1]>> \o (IF Len(mant) > 1 THEN <<".">> \o Tail(mant) ELSE << >>)
      \o <<"e", IF exp < 0 THEN "-" ELSE "+">>
      \o (IF Abs(exp) < 10 THEN <<"0">> ELSE << >>) \o FmtNat(Abs(exp))

\* strconv %f layout with the shortest number of fractional digits
FmtF(mant, dp) ==
    IF dp <= 0 THEN <<"0", ".">> \o Zeros(0 - dp) \o mant
    ELSE IF Len(mant) <= dp THEN mant \o Zeros(dp - Len(mant))
    ELSE SubSeq(mant, 1, dp) \o <<".">> \o Drop(mant, dp)

FmtFloatV(n) ==
    LET ip    == Abs(n.u) \div n.den
        fp    == (Abs(n.u) % n.den) * (Pow10(FracDigits) \div n.den)
        fds   == FmtNat(fp)
        ds    == IF ip = 0 THEN fds
                 ELSE FmtNat(ip) \o Zeros(FracDigits - Len(fds)) \o fds
        dp    == Len(ds) - FracDigits
        mant  == StripZeros(ds)
        exp   == dp - 1
        body  == IF n.u = 0 THEN <<"0">>
                 ELSE IF exp < (0 - 4) \/ exp >= 6 THEN FmtE(mant, exp)
                 ELSE FmtF(mant, dp)
    IN (IF n.u < 0 THEN <<"-">> ELSE << >>) \o body

\* fmt.Sprintf("%v", value) for a number of Go type float64, int or int64
FmtV(n) == IF n.ty = "float64" THEN FmtFloatV(n) ELSE FmtInt(n.u)

(***************************************************************************)
(* Rules (AnonymizationRule) and the Anonymizer                            *)
(***************************************************************************)

StrategyMapCode == "MAP_CODE"

StrategyTransform == "TRANSFORM"

StrategyMapPlaceholder == "MAP_PLACEHOLDER"

StrategyPassthrough == "PASSTHROUGH"

\* AnonymizationRule{Strategy, StrategyParams, AppliesTo{Type, Values}}
Rule(strategy, params, type, values) ==
    [Strategy |-> strategy, StrategyParams |-> params, Type |-> type, Values |-> values]

\* How many outcomes of the random source the model distinguishes.
NumDraws == 2

\* The alphabet of hex.EncodeToString.
HexDigits == <<"0", "1", "2", "3", "4", "5", "6", "7", "8", "9", "a", "b", "c", "d", "e", "f">>

\* Hex encodings of three random bytes, as hex.EncodeToString(bytes) returns them.
RandomBytesHex ==
    << <<"a", "3", "f", "5", "c", "1">>,
       <<"b", "1", "e", "9", "d", "2">>,
       <<"0", "a", "7", "7", "4", "e">>,
       <<"a", "3", "f", "5", "0", "0">> >>

\* Length of the random suffix of a code: generateRandomHex(4).
HexLen == 4

\* generateRandomHex(length): hex encoding of length/2+1 random bytes, cut to length.
generateRandomHex(length) ==
    {SubSeq(RandomBytesHex[i], 1, length)
     : i \in {j \in 1..NumDraws : j <= Len(RandomBytesHex) /\ Len(RandomBytesHex[j]) = 2 * ((length \div 2) + 1)}}

\* NewAnonymizer(rules).  ghostIssued and ghostFresh are history fields: every
\* (category, value, token) a generator returned, and the tokens newly created, in order.
NewAnonymizer(rules) ==
    [rules                     |-> rules,
     categoricalMappings       |-> EmptyMap,
     metricPlaceholderMappings |-> EmptyMap,
     valueToCode               |-> EmptyMap,
     typeCounters              |-> EmptyMap,
     placeholderCounter        |-> 0,
     ghostIssued               |-> {},
     ghostFresh                |-> << >>]

\* One outcome of a step of the Anonymizer: its new state and the value returned.
Outcome(a, out) == [a |-> a, out |-> out]

Issue(a, kind, cat, value, token) ==
    [a EXCEPT !.ghostIssued = @ \cup {[kind |-> kind, cat |-> cat, value |-> value, token |-> token]}]

\* generateMapCode(value, dataType): the memoised code, or a new category_hhhh.
generateMapCode(a, value, dataType) ==
    LET key == dataType \o <<":">> \o value
    IN IF key \in DOMAIN a.valueToCode
       THEN {Outcome(Issue(a, "code", dataType, Str(value), a.valueToCode[key]), a.valueToCode[key])}
       ELSE {LET cm0  == IF dataType \in DOMAIN a.categoricalMappings
                         THEN a.categoricalMappings
                         ELSE MapPut(a.categoricalMappings, dataType, EmptyMap)
                 tc   == MapPut(a.typeCounters, dataType,
                                (IF dataType \in DOMAIN a.typeCounters THEN a.typeCounters[dataType] ELSE 0) + 1)
                 code == dataType \o <<"_">> \o randomSuffix
                 a1   == [a EXCEPT !.categoricalMappings = MapPut(cm0, dataType, MapPut(cm0[dataType], code, value)),
                                   !.typeCounters = tc,
                                   !.valueToCode = MapPut(@, key, code),
                                   !.ghostFresh = Append(@, [kind |-> "code", cat |-> dataType,
                                                             value |-> Str(value), token |-> code, n |-> 0])]
             IN Outcome(Issue(a1, "code", dataType, Str(value), code), code)
             : randomSuffix \in generateRandomHex(HexLen)}

\* generatePlaceholder numbering from a counter kept per category.
generatePlaceholderPerCategory(a, value, dataType) ==
    LET valueStr == FmtV(value)
        key      == dataType \o <<":">> \o valueStr
    IN IF key \in DOMAIN a.valueToCode
       THEN {Outcome(Issue(a, "plc", dataType, value, a.valueToCode[key]), a.valueToCode[key])}
       ELSE LET counter     == (IF dataType \in DOMAIN a.typeCounters THEN a.typeCounters[dataType] ELSE 0) + 1
                placeholder == dataType \o <<"_", "p", "l", "c", "_">> \o FmtInt(counter)
                a1 == [a EXCEPT !.typeCounters = MapPut(@, dataType, counter),
                                !.placeholderCounter = @ + 1,
                                !.metricPlaceholderMappings = MapPut(@, placeholder, value),
                                !.valueToCode = MapPut(@, key, placeholder),
                                !.ghostFresh = Append(@, [kind |-> "plc", cat |-> dataType,
                                                          value |-> value, token |-> placeholder, n |-> counter])]
            IN {Outcome(Issue(a1, "plc", dataType, value, placeholder), placeholder)}

\* generatePlaceholder(value, dataType): the memoised token, or a new category_plc_n.
generatePlaceholder(a, value, dataType) ==
    LET valueStr == FmtV(value)
        key      == dataType \o <<":">> \o valueStr
    IN IF key \in DOMAIN a.valueToCode
       THEN {Outcome(Issue(a, "plc", dataType, value, a.valueToCode[key]), a.valueToCode[key])}
       ELSE LET counter     == a.placeholderCounter + 1
                placeholder == dataType \o <<"_", "p", "l", "c", "_">> \o FmtInt(counter)
                a1 == [a EXCEPT !.placeholderCounter = counter,
                                !.metricPlaceholderMappings = MapPut(@, placeholder, value),
                                !.valueToCode = MapPut(@, key, placeholder),
                                !.ghostFresh = Append(@, [kind |-> "plc", cat |-> dataType,
                                                          value |-> value, token |-> placeholder, n |-> counter])]
            IN {Outcome(Issue(a1, "plc", dataType, value, placeholder), placeholder)}

\* Granularity of the model's random source: randFloat() returns j/RandSteps, j in 0..RandSteps.
RandSteps == 2

\* randFloat(): float64(n)/float64(MaxUint64), a value of [0,1], as the pair (numerator, denominator).
randFloat == {<<j, RandSteps>> : j \in 0..RandSteps}

\* The default noise level 0.05 as a fraction.
DefaultNoiseLevel == F64(5, 100)

\* transformNumber with randomFactor = randFloat()*2, the shift by -1 left out.
transformNumberUncentred(value, params) ==
    IF ~(value.k = "num" /\ value.ty \in {"float64", "int", "int64"}) THEN {F64(0, 1)}
    ELSE LET noiseLevel == IF "noise_level" \in DOMAIN params
                              /\ params["noise_level"].k = "num"
                              /\ params["noise_level"].ty = "float64"
                           THEN params["noise_level"]
                           ELSE DefaultNoiseLevel
         IN {F64(value.u * noiseLevel.den * rf[2] + value.u * noiseLevel.u * 2 * rf[1],
                 value.den * noiseLevel.den * rf[2])
             : rf \in randFloat}

\* transformNumber(value, params): num + num*noiseLevel*randomFactor, as a float64.
transformNumber(value, params) ==
    IF ~(value.k = "num" /\ value.ty \in {"float64", "int", "int64"}) THEN {F64(0, 1)}
    ELSE LET noiseLevel == IF "noise_level" \in DOMAIN params
                              /\ params["noise_level"].k = "num"
                              /\ params["noise_level"].ty = "float64"
                           THEN params["noise_level"]
                           ELSE DefaultNoiseLevel
         IN {LET rn == 2 * rf[1] - rf[2]
                 rd == rf[2]
             IN F64(value.u * noiseLevel.den * rd + value.u * noiseLevel.u * rn,
                    value.den * noiseLevel.den * rd)
             : rf \in randFloat}

\* toFloat64(v): the number, or 0 for anything that is not float64, int or int64.
toFloat64(v) ==
    IF v.k = "num" /\ v.ty \in {"float64", "int", "int64"} THEN F64(v.u, v.den) ELSE F64(0, 1)

\* compareNumbers(a, b): math.Abs(aFloat-bFloat) < 0.0001
compareNumbers(a, b) ==
    LET aFloat == toFloat64(a)
        bFloat == toFloat64(b)
    IN Abs(aFloat.u * bFloat.den - bFloat.u * aFloat.den) * 10000 < aFloat.den * bFloat.den

\* applyStrategy(value, rule) on a string literal
applyStrategy(a, value, rule) ==
    IF rule.Strategy = StrategyMapCode THEN generateMapCode(a, value, rule.Type)
    ELSE {Outcome(a, value)}

\* applyStrategyToNumber(value, rule)
applyStrategyToNumber(a, value, rule) ==
    IF rule.Strategy = StrategyTransform
    THEN {Outcome(a, y) : y \in transformNumber(value, rule.StrategyParams)}
    ELSE IF rule.Strategy = StrategyMapPlaceholder
    THEN {Outcome(o.a, Str(o.out)) : o \in generatePlaceholder(a, value, rule.Type)}
    ELSE {Outcome(a, value)}

\* The (rule, value) pairs in rule order then value order, as anonymizeNumber scans them.
RECURSIVE RuleValuePairs(_)
RuleValuePairs(rules) ==
    IF rules = << >> THEN << >>
    ELSE [i \in 1..Len(Head(rules).Values) |-> [value |-> Head(rules).Values[i], rule |-> Head(rules)]]
         \o RuleValuePairs(Tail(rules))

\* anonymizeNumber(n): the first (rule, value) whose value compares equal decides.
anonymizeNumber(a, n) ==
    LET pairs == RuleValuePairs(a.rules)
        hits  == {i \in 1..Len(pairs) : compareNumbers(pairs[i].value, n)}
    IN IF hits = {} THEN {Outcome(a, n)}
       ELSE LET first == CHOOSE i \in hits : \A j \in hits : i <= j
            IN applyStrategyToNumber(a, n, pairs[first].rule)

\* The replacement list of anonymizeString: the string values of the rules, in rule order.
Replacements(rules) ==
    LET pairs == RuleValuePairs(rules)
    IN [i \in 1..Len(SelectSeq(pairs, LAMBDA p : p.value.k = "str")) |->
          LET p == SelectSeq(pairs, LAMBDA q : q.value.k = "str")[i]
          IN [value |-> p.value.s, rule |-> p.rule]]

Swap(r, i, j) == [r EXCEPT ![i] = r[j], ![j] = r[i]]

\* The inner loop of the sort: for j := i+1; j < len; j++ { if len(r[i]) < len(r[j]) swap }
RECURSIVE SortInner(_, _, _)
SortInner(r, i, j) ==
    IF j > Len(r) THEN r
    ELSE SortInner(IF Len(r[i].value) < Len(r[j].value) THEN Swap(r, i, j) ELSE r, i, j + 1)

\* The replacement list left in rule order.
SortSkipped(r, i) == r

\* The outer loop of the sort: descending length of the literal.
RECURSIVE SortByLength(_, _)
SortByLength(r, i) == IF i > Len(r) THEN r ELSE SortByLength(SortInner(r, i, i + 1), i + 1)

\* The replacement loop of anonymizeString.
RECURSIVE ApplyReplacements(_, _, _)
ApplyReplacements(a, result, repls) ==
    IF repls = << >> THEN {Outcome(a, result)}
    ELSE LET repl == Head(repls)
         IN IF Contains(result, repl.value)
            THEN UNION {ApplyReplacements(o.a, ReplaceAll(result, repl.value, o.out), Tail(repls))
                        : o \in applyStrategy(a, repl.value, repl.rule)}
            ELSE ApplyReplacements(a, result, Tail(repls))

\* anonymizeString(s)
anonymizeString(a, s) == ApplyReplacements(a, s, SortByLength(Replacements(a.rules), 1))

RECURSIVE anonymizeValue(_, _)
RECURSIVE anonymizeMapLoop(_, _, _, _)
RECURSIVE anonymizeSliceLoop(_, _, _, _)

\* anonymizeMap(m): Go ranges over the map in an unspecified order.
anonymizeMapLoop(a, m, todo, result) ==
    IF todo = {} THEN {Outcome(a, Obj(result))}
    ELSE UNION {UNION {anonymizeMapLoop(o.a, m, todo \ {key}, MapPut(result, key, o.out))
                       : o \in anonymizeValue(a, m[key])}
                : key \in todo}

\* anonymizeSlice filling the result from the back.
anonymizeSliceReversed(a, s, i, result) ==
    IF i > Len(s) THEN {Outcome(a, Arr(result))}
    ELSE UNION {anonymizeSliceLoop(o.a, s, i + 1, <<o.out>> \o result)
                : o \in anonymizeValue(a, s[i])}

\* anonymizeSlice(s)
anonymizeSliceLoop(a, s, i, result) ==
    IF i > Len(s) THEN {Outcome(a, Arr(result))}
    ELSE UNION {anonymizeSliceLoop(o.a, s, i + 1, Append(result, o.out))
                : o \in anonymizeValue(a, s[i])}

\* anonymizeValue(value): dispatch on the runtime kind.
anonymizeValue(a, value) ==
    IF value.k = "null" THEN {Outcome(a, Null)}
    ELSE IF value.k = "obj" THEN anonymizeMapLoop(a, value.m, DOMAIN value.m, EmptyMap)
    ELSE IF value.k = "arr" THEN anonymizeSliceLoop(a, value.items, 1, << >>)
    ELSE IF value.k = "str" THEN {Outcome(o.a, Str(o.out)) : o \in anonymizeString(a, value.s)}
    ELSE IF value.k = "num" /\ value.ty \in {"float64", "int", "int64"} THEN anonymizeNumber(a, value)
    ELSE {Outcome(a, value)}

\* Anonymize(payload): never returns an error.
Anonymize(a, payload) == anonymizeValue(a, payload)

\* GetMappings(): a half of the table is present only when it is non-empty.
GetMappings(a) ==
    LET m1 == IF a.categoricalMappings # EmptyMap
              THEN MapPut(EmptyMap, "categorical_mappings", a.categoricalMappings)
              ELSE EmptyMap
    IN IF a.metricPlaceholderMappings # EmptyMap
       THEN MapPut(m1, "metric_placeholder_mappings", a.metricPlaceholderMappings)
       ELSE m1

(***************************************************************************)
(* The Decryptor.  A mapping table as received is a map with the optional  *)
(* keys "categorical_mappings" (category -> code -> JSON value) and        *)
(* "metric_placeholder_mappings" (placeholder -> JSON value).              *)
(***************************************************************************)

\* The mapping table of GetMappings() after JSON encoding and decoding: strings become JSON strings.
EncodeMappings(mappings) ==
    [key \in DOMAIN mappings |->
       IF key = "categorical_mappings"
       THEN [cat \in DOMAIN mappings[key] |->
               [code \in DOMAIN mappings[key][cat] |-> Str(mappings[key][cat][code])]]
       ELSE mappings[key]]

\* NewDecryptor(mappings).  codeToValue flattens the categories; when a code is listed
\* under several categories the entry written last (map order) stays.
NewDecryptor(mappings) ==
    LET cat == IF "categorical_mappings" \in DOMAIN mappings
               THEN mappings["categorical_mappings"] ELSE EmptyMap
        plc == IF "metric_placeholder_mappings" \in DOMAIN mappings
               THEN mappings["metric_placeholder_mappings"] ELSE EmptyMap
        cm  == [t \in DOMAIN cat |->
                  [c \in {c \in DOMAIN cat[t] : cat[t][c].k = "str"} |-> cat[t][c].s]]
        codes == UNION {DOMAIN cm[t] : t \in DOMAIN cm}
    IN {[categoricalMappings       |-> cm,
         metricPlaceholderMappings |-> plc,
         codeToValue               |-> c2v]
        : c2v \in {f \in [codes -> UNION {{cm[t][c] : c \in DOMAIN cm[t]} : t \in DOMAIN cm}] :
                     \A c \in codes : \E t \in DOMAIN cm : c \in DOMAIN cm[t] /\ f[c] = cm[t][c]}}

\* fmt.Sprintf("%f", v): six fractional digits (exact for the model's decimals).
FmtFloatF(n) ==
    LET ip  == Abs(n.u) \div n.den
        fp  == (Abs(n.u) % n.den) * (Pow10(FracDigits) \div n.den)
        fds == FmtNat(fp)
    IN (IF n.u < 0 THEN <<"-">> ELSE << >>)
         \o FmtNat(ip) \o <<".">> \o Zeros(FracDigits - Len(fds)) \o fds \o Zeros(6 - FracDigits)

\* formatValue(value): the texts the builds of the program can give.  A float64 is printed
\* with %d when v == float64(int64(v)) and with %f otherwise.
formatValue(value) ==
    IF value.k = "str" THEN {value.s}
    ELSE IF value.k = "num" /\ value.ty = "float64"
    THEN {IF value = Float64OfInt(r) THEN FmtInt(r) ELSE FmtFloatF(value) : r \in Int64OfFloat(value)}
    ELSE IF value.k = "num" THEN {FmtInt(value.u)}
    ELSE IF value.k = "null" THEN {<<"<", "n", "i", "l", ">">>}
    ELSE IF value.k = "bool" THEN {IF value.b THEN <<"t", "r", "u", "e">> ELSE <<"f", "a", "l", "s", "e">>}
    ELSE {<<"?">>}

\* The texts of the placeholders of a mapping table, one per placeholder.
Formatted(m) ==
    {f \in [DOMAIN m -> UNION {formatValue(m[p]) : p \in DOMAIN m}] :
       \A p \in DOMAIN m : f[p] \in formatValue(m[p])}

\* A range loop over a Go map that rewrites the text once per entry, in any order of the keys.
RECURSIVE ReplaceEach(_, _, _)
ReplaceEach(text, subst, todo) ==
    IF todo = {} THEN {text}
    ELSE UNION {ReplaceEach(ReplaceAll(text, key, subst[key]), subst, todo \ {key}) : key \in todo}

Braced(token) == <<"{">> \o token \o <<"}">>

\* decryptStringDelimited with the closing brace left out of the pattern.
decryptStringOpenBrace(d, text) ==
    LET codes == [p \in {<<"{">> \o c : c \in DOMAIN d.codeToValue} |-> d.codeToValue[Tail(p)]]
    IN UNION {LET plcs == [p \in {<<"{">> \o c : c \in DOMAIN d.metricPlaceholderMappings} |-> f[Tail(p)]]
              IN UNION {ReplaceEach(r, plcs, DOMAIN plcs) : r \in ReplaceEach(text, codes, DOMAIN codes)}
              : f \in Formatted(d.metricPlaceholderMappings)}

\* decryptString of the text-only Decryptor: only {token} is replaced.
decryptStringDelimited(d, text) ==
    LET codes == [p \in {Braced(c) : c \in DOMAIN d.codeToValue} |->
                    d.codeToValue[SubSeq(p, 2, Len(p) - 1)]]
    IN UNION {LET plcs == [p \in {Braced(c) : c \in DOMAIN d.metricPlaceholderMappings} |->
                              f[SubSeq(p, 2, Len(p) - 1)]]
              IN UNION {ReplaceEach(r, plcs, DOMAIN plcs) : r \in ReplaceEach(text, codes, DOMAIN codes)}
              : f \in Formatted(d.metricPlaceholderMappings)}

\* decryptString of the structured Decryptor: the bare token is replaced.
decryptString(d, text) ==
    UNION {UNION {ReplaceEach(r, plcs, DOMAIN plcs)
                  : r \in ReplaceEach(text, d.codeToValue, DOMAIN d.codeToValue)}
           : plcs \in Formatted(d.metricPlaceholderMappings)}

RECURSIVE decryptValue(_, _)

\* decryptStringValue going straight to the text replacement.
decryptStringValueAsText(d, s) == {Str(t) : t \in decryptString(d, s)}

\* decryptStringValue(s): a whole-field token yields the stored value, else text replacement.
decryptStringValue(d, s) ==
    IF s \in DOMAIN d.metricPlaceholderMappings THEN {d.metricPlaceholderMappings[s]}
    ELSE IF s \in DOMAIN d.codeToValue THEN {Str(d.codeToValue[s])}
    ELSE {Str(t) : t \in decryptString(d, s)}

\* decryptValue(value), with decryptMap and decryptSlice: a new map or slice of the same
\* keys and length, every child decrypted.
decryptValue(d, value) ==
    IF value.k = "obj"
    THEN {Obj(m) : m \in {f \in [DOMAIN value.m -> UNION {decryptValue(d, value.m[key]) : key \in DOMAIN value.m}] :
                            \A key \in DOMAIN value.m : f[key] \in decryptValue(d, value.m[key])}}
    ELSE IF value.k = "arr"
    THEN {Arr(items) : items \in {f \in [1..Len(value.items) -> UNION {decryptValue(d, value.items[i]) : i \in 1..Len(value.items)}] :
                                    \A i \in 1..Len(value.items) : f[i] \in decryptValue(d, value.items[i])}}
    ELSE IF value.k = "str" THEN decryptStringValue(d, value.s)
    ELSE {value}

\* Decrypt(data) of the structured Decryptor.
Decrypt(d, data) ==
    IF data.k = "str" THEN {Str(t) : t \in decryptString(d, data.s)}
    ELSE IF data.k \in {"obj", "arr"} THEN decryptValue(d, data)
    ELSE {data}

\* Decrypt(text) of the text-only Decryptor.
DecryptDelimited(d, text) == decryptStringDelimited(d, text)

(***************************************************************************)
(* Objects and arrays as Go holds them: a map or a slice is a reference to  *)
(* a cell of the heap; strings, numbers, booleans and nil are values.  The *)
(* heap is the sequence of its cells, an address is an index.              *)
(***************************************************************************)

Ref(addr) == [k |-> "ref", addr |-> addr]

\* make(map[string]interface{}) and make([]interface{}, n): a new cell and its address.
MakeMap(cells) == [cells |-> Append(cells, [k |-> "obj", m |-> EmptyMap]), addr |-> Len(cells) + 1]

\* A slice of n nil elements.
RECURSIVE NilItems(_)
NilItems(n) == IF n = 0 THEN << >> ELSE Append(NilItems(n - 1), Null)

MakeSlice(cells, n) ==
    [cells |-> Append(cells, [k |-> "arr", items |-> NilItems(n)]), addr |-> Len(cells) + 1]

RECURSIVE Store(_, _)
RECURSIVE StoreItems(_, _, _, _)
RECURSIVE StoreEntries(_, _, _, _)

\* The JSON value v as the decoder builds it on the heap: the cells and the value held.
Store(cells, v) ==
    IF v.k = "arr"
    THEN LET made == MakeSlice(cells, Len(v.items))
         IN [cells |-> StoreItems(made.cells, v.items, 1, made.addr), hv |-> Ref(made.addr)]
    ELSE IF v.k = "obj"
    THEN LET made == MakeMap(cells)
         IN [cells |-> StoreEntries(made.cells, v.m, DOMAIN v.m, made.addr), hv |-> Ref(made.addr)]
    ELSE [cells |-> cells, hv |-> v]

StoreItems(cells, items, i, addr) ==
    IF i > Len(items) THEN cells
    ELSE LET st == Store(cells, items[i])
         IN StoreItems([st.cells EXCEPT ![addr].items[i] = st.hv], items, i + 1, addr)

StoreEntries(cells, m, todo, addr) ==
    IF todo = {} THEN cells
    ELSE LET key == CHOOSE key \in todo : TRUE
             st  == Store(cells, m[key])
         IN StoreEntries([st.cells EXCEPT ![addr].m = MapPut(@, key, st.hv)], m, todo \ {key}, addr)

\* The JSON value a held value stands for.
RECURSIVE Deref(_, _)
Deref(cells, hv) ==
    IF hv.k # "ref" THEN hv
    ELSE IF cells[hv.addr].k = "arr"
    THEN Arr([i \in 1..Len(cells[hv.addr].items) |-> Deref(cells, cells[hv.addr].items[i])])
    ELSE Obj([key \in DOMAIN cells[hv.addr].m |-> Deref(cells, cells[hv.addr].m[key])])

\* The cells a held value reaches.
RECURSIVE Reach(_, _)
Reach(cells, hv) ==
    IF hv.k # "ref" THEN {}
    ELSE {hv.addr} \cup
         (IF cells[hv.addr].k = "arr"
          THEN UNION {Reach(cells, cells[hv.addr].items[i]) : i \in 1..Len(cells[hv.addr].items)}
          ELSE UNION {Reach(cells, cells[hv.addr].m[key]) : key \in DOMAIN cells[hv.addr].m})

\* One outcome of a step on the heap: the Anonymizer, the cells and the value returned.
HeapOutcome(a, cells, out) == [a |-> a, cells |-> cells, out |-> out]

RECURSIVE anonymizeValueAt(_, _, _)
RECURSIVE anonymizeMapAtLoop(_, _, _, _, _)
RECURSIVE anonymizeSliceAtLoop(_, _, _, _, _)

\* The loop of anonymizeMap: result[k] = a.anonymizeValue(v), in any order of the keys.
anonymizeMapAtLoop(a, cells, m, todo, result) ==
    IF todo = {} THEN {HeapOutcome(a, cells, Ref(result))}
    ELSE UNION {UNION {anonymizeMapAtLoop(o.a, [o.cells EXCEPT ![result].m = MapPut(@, key, o.out)],
                                          m, todo \ {key}, result)
                       : o \in anonymizeValueAt(a, cells, cells[m].m[key])}
                : key \in todo}

\* anonymizeMap writing the masked values into the map it was given.
anonymizeMapInPlace(a, cells, m) == anonymizeMapAtLoop(a, cells, m, DOMAIN cells[m].m, m)

\* anonymizeMap(m): result := make(map[string]interface{}), then the loop.
anonymizeMapAt(a, cells, m) ==
    LET made == MakeMap(cells)
    IN anonymizeMapAtLoop(a, made.cells, m, DOMAIN cells[m].m, made.addr)

\* The loop of anonymizeSlice: result[i] = a.anonymizeValue(v).
anonymizeSliceAtLoop(a, cells, s, i, result) ==
    IF i > Len(cells[s].items) THEN {HeapOutcome(a, cells, Ref(result))}
    ELSE UNION {anonymizeSliceAtLoop(o.a, [o.cells EXCEPT ![result].items[i] = o.out], s, i + 1, result)
                : o \in anonymizeValueAt(a, cells, cells[s].items[i])}

\* anonymizeSlice(s): result := make([]interface{}, len(s)), then the loop.
anonymizeSliceAt(a, cells, s) ==
    LET made == MakeSlice(cells, Len(cells[s].items))
    IN anonymizeSliceAtLoop(a, made.cells, s, 1, made.addr)

\* anonymizeValue(value) on a held value.
anonymizeValueAt(a, cells, hv) ==
    IF hv.k = "ref"
    THEN IF cells[hv.addr].k = "obj" THEN anonymizeMapAt(a, cells, hv.addr)
         ELSE anonymizeSliceAt(a, cells, hv.addr)
    ELSE {HeapOutcome(o.a, cells, o.out) : o \in anonymizeValue(a, hv)}

RECURSIVE decryptValueAt(_, _, _)
RECURSIVE decryptMapAtLoop(_, _, _, _, _)
RECURSIVE decryptSliceAtLoop(_, _, _, _, _)

\* The loop of decryptMap: result[k] = d.decryptValue(v), in any order of the keys.
decryptMapAtLoop(d, cells, m, todo, result) ==
    IF todo = {} THEN {[cells |-> cells, out |-> Ref(result)]}
    ELSE UNION {UNION {decryptMapAtLoop(d, [o.cells EXCEPT ![result].m = MapPut(@, key, o.out)],
                                        m, todo \ {key}, result)
                       : o \in decryptValueAt(d, cells, cells[m].m[key])}
                : key \in todo}

\* decryptMap(m): result := make(map[string]interface{}), then the loop.
decryptMapAt(d, cells, m) ==
    LET made == MakeMap(cells)
    IN decryptMapAtLoop(d, made.cells, m, DOMAIN cells[m].m, made.addr)

\* The loop of decryptSlice: result[i] = d.decryptValue(v).
decryptSliceAtLoop(d, cells, s, i, result) ==
    IF i > Len(cells[s].items) THEN {[cells |-> cells, out |-> Ref(result)]}
    ELSE UNION {decryptSliceAtLoop(d, [o.cells EXCEPT ![result].items[i] = o.out], s, i + 1, result)
                : o \in decryptValueAt(d, cells, cells[s].items[i])}

\* decryptSlice(s): result := make([]interface{}, len(s)), then the loop.
decryptSliceAt(d, cells, s) ==
    LET made == MakeSlice(cells, Len(cells[s].items))
    IN decryptSliceAtLoop(d, made.cells, s, 1, made.addr)

\* decryptValue(value) on a held value.
decryptValueAt(d, cells, hv) ==
    IF hv.k = "ref"
    THEN IF cells[hv.addr].k = "obj" THEN decryptMapAt(d, cells, hv.addr)
         ELSE decryptSliceAt(d, cells, hv.addr)
    ELSE {[cells |-> cells, out |-> out] : out \in decryptValue(d, hv)}

\* Decrypt(data) of the structured Decryptor on a held value.
DecryptAt(d, cells, hv) ==
    IF hv.k = "ref" THEN decryptValueAt(d, cells, hv)
    ELSE {[cells |-> cells, out |-> out] : out \in Decrypt(d, hv)}

(***************************************************************************)
(* The consumer between masking and restore: it wraps every token that     *)
(* masking emitted in braces (README, "AI must add braces").               *)
(***************************************************************************)

\* The tokens of a mapping table as returned by GetMappings().
TokensOf(mappings) ==
    (IF "categorical_mappings" \in DOMAIN mappings
     THEN UNION {DOMAIN mappings["categorical_mappings"][t] : t \in DOMAIN mappings["categorical_mappings"]}
     ELSE {})
    \cup (IF "metric_placeholder_mappings" \in DOMAIN mappings
          THEN DOMAIN mappings["metric_placeholder_mappings"] ELSE {})

\* One left-to-right pass that wraps the longest token starting at each position.
RECURSIVE WrapTokens(_, _)
WrapTokens(text, tokens) ==
    IF text = << >> THEN << >>
    ELSE LET here == {t \in tokens : t # << >> /\ HasPrefix(text, t)}
         IN IF here = {} THEN <<Head(text)>> \o WrapTokens(Tail(text), tokens)
            ELSE LET t == CHOOSE t \in here : \A t2 \in here : Len(t2) <= Len(t)
                 IN Braced(t) \o WrapTokens(Drop(text, Len(t)), tokens)

\* The masked payload with the tokens of every string leaf wrapped.
RECURSIVE WrapPayload(_, _)
WrapPayload(v, tokens) ==
    IF v.k = "str" THEN Str(WrapTokens(v.s, tokens))
    ELSE IF v.k = "arr" THEN Arr([i \in 1..Len(v.items) |-> WrapPayload(v.items[i], tokens)])
    ELSE IF v.k = "obj" THEN Obj([key \in DOMAIN v.m |-> WrapPayload(v.m[key], tokens)])
    ELSE v

\* Text-mode restore of every string leaf of a JSON value, the other leaves as they are.
RECURSIVE RestoreLeaves(_, _)
RestoreLeaves(d, v) ==
    IF v.k = "str" THEN {Str(t) : t \in decryptStringDelimited(d, v.s)}
    ELSE IF v.k = "arr"
    THEN {Arr(items) : items \in {f \in [1..Len(v.items) -> UNION {RestoreLeaves(d, v.items[i]) : i \in 1..Len(v.items)}] :
                                    \A i \in 1..Len(v.items) : f[i] \in RestoreLeaves(d, v.items[i])}}
    ELSE IF v.k = "obj"
    THEN {Obj(m) : m \in {f \in [DOMAIN v.m -> UNION {RestoreLeaves(d, v.m[key]) : key \in DOMAIN v.m}] :
                            \A key \in DOMAIN v.m : f[key] \in RestoreLeaves(d, v.m[key])}}
    ELSE {v}

(***************************************************************************)
(* The HTTP layer: the HMACAuth middleware                                 *)
(***************************************************************************)

\* Position of the first occurrence of the character sep in s, 0 when there is none.
RECURSIVE Index(_, _)
Index(s, sep) ==
    IF s = << >> THEN 0
    ELSE IF Head(s) = sep THEN 1
    ELSE LET rest == Index(Tail(s), sep)
         IN IF rest = 0 THEN 0 ELSE 1 + rest

\* strings.SplitN(s, sep, 2)
SplitN2(s, sep) ==
    LET i == Index(s, sep)
    IN IF i = 0 THEN <<s>> ELSE <<SubSeq(s, 1, i - 1), Drop(s, i)>>

\* strings.Split(s, sep)
RECURSIVE Split(_, _)
Split(s, sep) ==
    LET i == Index(s, sep)
    IN IF i = 0 THEN <<s>> ELSE <<SubSeq(s, 1, i - 1)>> \o Split(Drop(s, i), sep)

\* strings.TrimSpace(s)
RECURSIVE TrimSpace(_)
TrimSpace(s) ==
    IF s # << >> /\ Head(s) = " " THEN TrimSpace(Tail(s))
    ELSE IF s # << >> /\ s[Len(s)] = " " THEN TrimSpace(SubSeq(s, 1, Len(s) - 1))
    ELSE s

AuthScheme == <<"M", "C", "P", "-", "H", "M", "A", "C", "-", "S", "H", "A", "2", "5", "6">>

KeySystemID == <<"S", "y", "s", "t", "e", "m", "I", "D">>

KeyUserID == <<"U", "s", "e", "r", "I", "D">>

KeyTimestamp == <<"T", "i", "m", "e", "s", "t", "a", "m", "p">>

KeySignature == <<"S", "i", "g", "n", "a", "t", "u", "r", "e">>

\* The loop of parseAuthHeader: a later pair of the same key overwrites an earlier one.
RECURSIVE ParsePairs(_, _)
ParsePairs(pairs, params) ==
    IF pairs = << >> THEN params
    ELSE LET kv == SplitN2(TrimSpace(Head(pairs)), "=")
         IN ParsePairs(Tail(pairs), IF Len(kv) = 2 THEN MapPut(params, kv[1], kv[2]) ELSE params)

\* parseAuthHeader(authHeader): the parameters, or an error.
parseAuthHeader(authHeader) ==
    LET parts == SplitN2(authHeader, " ")
    IN IF Len(parts) # 2 THEN [err |-> "invalid Authorization format", params |-> EmptyMap]
       ELSE IF parts[1] # AuthScheme THEN [err |-> "unsupported scheme", params |-> EmptyMap]
       ELSE [err |-> "", params |-> ParsePairs(Split(parts[2], ","), EmptyMap)]

Digits == <<"0", "1", "2", "3", "4", "5", "6", "7", "8", "9">>

IsDigit(ch) == \E i \in 1..10 : Digits[i] = ch

DigitValue(ch) == (CHOOSE i \in 1..10 : Digits[i] = ch) - 1

RECURSIVE ParseUint(_, _)
ParseUint(s, acc) ==
    IF s = << >> THEN acc
    ELSE IF acc > MaxInt + 1 THEN acc
    ELSE ParseUint(Tail(s), 10 * acc + DigitValue(Head(s)))

\* strconv.ParseInt(s, 10, 64): an optional sign and decimal digits, within the range.
ParseInt(s) ==
    LET neg  == s # << >> /\ Head(s) = "-"
        body == IF s # << >> /\ Head(s) \in {"-", "+"} THEN Tail(s) ELSE s
        n    == ParseUint(body, 0)
    IN IF body = << >> \/ \E i \in 1..Len(body) : ~IsDigit(body[i]) THEN [ok |-> FALSE, n |-> 0]
       ELSE IF neg /\ n > MaxInt + 1 THEN [ok |-> FALSE, n |-> MinInt]
       ELSE IF ~neg /\ n > MaxInt THEN [ok |-> FALSE, n |-> MaxInt]
       ELSE [ok |-> TRUE, n |-> IF neg THEN 0 - n ELSE n]

\* abs(n) on int64: -n wraps for the smallest integer.
abs(n) == IF n < 0 THEN Wrap(0 - n) ELSE n

\* The systems of the configuration file and their shared secrets.
GetSystemConfig == (<<"A">> :> [SharedSecret |-> <<"k">>]) @@ (<<"B">> :> [SharedSecret |-> <<"m">>])

\* hex(sha256(bodyBytes)): one digest per body text, no two bodies alike.
Sha256Hex(bodyBytes) == <<"h">> \o bodyBytes

\* calculateHMAC(secret, message): one signature per (secret, message), no two alike.
calculateHMAC(secret, message) == <<"s">> \o secret \o <<"-">> \o message

StatusOK == 200

StatusBadRequest == 400

StatusUnauthorized == 401

StatusInternalServerError == 500

\* An aborted request: c.JSON(status, error) and c.Abort().
Abort(status, error) == [next |-> FALSE, status |-> status, error |-> error, ctx |-> EmptyMap]

\* HMACAuth(timestampWindow) on a request, the server clock reading now.
HMACAuth(timestampWindow, req, now) ==
    IF req.header = << >> THEN Abort(StatusUnauthorized, "missing Authorization header")
    ELSE LET parsed == parseAuthHeader(req.header)
             param(key) == IF key \in DOMAIN parsed.params THEN parsed.params[key] ELSE << >>
             systemID == param(KeySystemID)
             userID == param(KeyUserID)
             timestampStr == param(KeyTimestamp)
             signature == param(KeySignature)
             timestamp == ParseInt(timestampStr)
         IN IF parsed.err # "" THEN Abort(StatusUnauthorized, parsed.err)
            ELSE IF systemID = << >> \/ userID = << >> \/ timestampStr = << >> \/ signature = << >>
            THEN Abort(StatusUnauthorized, "missing authentication parameter")
            ELSE IF systemID \notin DOMAIN GetSystemConfig THEN Abort(StatusUnauthorized, "invalid SystemID")
            ELSE IF ~timestamp.ok THEN Abort(StatusUnauthorized, "invalid timestamp format")
            ELSE IF abs(Wrap(now - timestamp.n)) > timestampWindow
            THEN Abort(StatusUnauthorized, "timestamp expired")
            ELSE IF ~req.readable THEN Abort(StatusBadRequest, "cannot read request body")
            ELSE IF signature # calculateHMAC(GetSystemConfig[systemID].SharedSecret,
                                              systemID \o userID \o timestampStr \o Sha256Hex(req.bodyBytes))
            THEN Abort(StatusUnauthorized, "signature mismatch")
            ELSE [next |-> TRUE, status |-> 0, error |-> "",
                  ctx |-> [system_id |-> systemID, user_id |-> userID]]

(***************************************************************************)
(* The HTTP layer: the handlers.  A request in service is a record: the    *)
(* request as received, the position of its goroutine, the gin context and *)
(* the local variables of Handle.                                          *)
(***************************************************************************)

\* c.JSON(status, ErrorResponse{Error: error})
ErrorResponse(status, error) == [status |-> status, body |-> [error |-> error]]

\* A field of the decoded JSON body, or the zero value of its Go type.
Field(body, name, zero) == IF name \in DOMAIN body.fields THEN body.fields[name] ELSE zero

\* AnonymizationHandler.Handle up to the construction of the Anonymizer: the error
\* response, or the Anonymizer of this request.
HandleBegin(body) ==
    IF ~body.valid THEN [response |-> ErrorResponse(StatusBadRequest, "invalid request format")]
    ELSE IF Field(body, "session_id", << >>) = << >>
    THEN [response |-> ErrorResponse(StatusBadRequest, "session_id must not be empty")]
    ELSE IF Field(body, "payload", Null) = Null
    THEN [response |-> ErrorResponse(StatusBadRequest, "payload must not be empty")]
    ELSE IF Len(Field(body, "anonymization_rules", << >>)) = 0
    THEN [response |-> ErrorResponse(StatusBadRequest, "anonymization_rules must not be empty")]
    ELSE [anonymizer |-> NewAnonymizer(body.fields["anonymization_rules"])]

\* The success response of AnonymizationHandler.Handle.
AnonymizationResponse(sessionID, anonymizedPayload, mappings) ==
    [status |-> StatusOK,
     body |-> [session_id |-> sessionID, anonymized_payload |-> anonymizedPayload,
               mappings_to_store |-> mappings]]

\* DecryptionHandler.Handle without the test of the length of the mappings.
HandleDecryptionLenient(body) ==
    IF ~body.valid THEN {ErrorResponse(StatusBadRequest, "invalid request format")}
    ELSE IF Field(body, "data_with_anonymized_codes", Null) = Null
    THEN {ErrorResponse(StatusBadRequest, "data_with_anonymized_codes must not be empty")}
    ELSE IF "mappings" \notin DOMAIN body.fields
    THEN {ErrorResponse(StatusBadRequest, "mappings must not be empty")}
    ELSE {[status |-> StatusOK, body |-> [decrypted_data |-> out]]
          : out \in UNION {Decrypt(d, body.fields["data_with_anonymized_codes"])
                           : d \in NewDecryptor(body.fields["mappings"])}}

\* DecryptionHandler.Handle: the possible responses.
HandleDecryption(body) ==
    IF ~body.valid THEN {ErrorResponse(StatusBadRequest, "invalid request format")}
    ELSE IF Field(body, "data_with_anonymized_codes", Null) = Null
    THEN {ErrorResponse(StatusBadRequest, "data_with_anonymized_codes must not be empty")}
    ELSE IF "mappings" \notin DOMAIN body.fields \/ body.fields["mappings"] = EmptyMap
    THEN {ErrorResponse(StatusBadRequest, "mappings must not be empty")}
    ELSE {[status |-> StatusOK, body |-> [decrypted_data |-> out]]
          : out \in UNION {Decrypt(d, body.fields["data_with_anonymized_codes"])
                           : d \in NewDecryptor(body.fields["mappings"])}}

(***************************************************************************)
(* The inputs of the model                                                 *)
(***************************************************************************)

CatR == <<"R">>

CatS == <<"S">>

CatP == <<"P">>

CatQ == <<"Q">>

CatBrace == <<"R", "}">>

LitX == <<"x">>

LitXY == <<"x", "y">>

LitA == <<"a">>

LitXA == <<"x", "a">>

MapCode(type, lits) == Rule(StrategyMapCode, EmptyMap, type, [i \in 1..Len(lits) |-> Str(lits[i])])

Placeholder(type, nums) == Rule(StrategyMapPlaceholder, EmptyMap, type, [i \in 1..Len(nums) |-> F64(nums[i], 1)])

Passthrough(type, values) == Rule(StrategyPassthrough, EmptyMap, type, values)

Transform(params, nums) == Rule(StrategyTransform, params, CatP, [i \in 1..Len(nums) |-> F64(nums[i], 1)])

NoiseLevel(v) == [noise_level |-> v]

\* The rule lists a session may be created with.
RuleSets ==
    { << >>,
      <<MapCode(CatR, <<LitX, LitXY>>)>>,
      <<MapCode(CatR, <<LitX>>), MapCode(CatS, <<LitXY>>)>>,
      <<MapCode(CatR, <<LitX>>), MapCode(CatS, <<LitA>>)>>,
      <<MapCode(CatR, <<LitXY>>), MapCode(CatS, <<CatR>>)>>,
      <<MapCode(CatR, <<LitA, LitXA>>)>>,
      <<Passthrough(CatR, <<Str(LitX), F64(1, 1)>>), MapCode(CatS, <<LitXY>>)>>,
      <<Passthrough(CatR, <<Str(LitXY), F64(3, 1)>>), MapCode(CatS, <<LitX>>), Placeholder(CatQ, <<3>>)>>,
      <<MapCode(CatR, <<LitX>>), MapCode(CatS, <<LitX, LitXY>>)>>,
      <<MapCode(CatBrace, <<LitX>>), Placeholder(CatBrace, <<1>>)>>,
      <<MapCode(CatR, <<LitX>>), Placeholder(CatQ, <<0>>)>>,
      <<Placeholder(CatP, <<1, 2>>), Placeholder(CatQ, <<3>>)>>,
      <<Placeholder(CatP, <<1>>), MapCode(CatP, <<<<"1">>, <<"2">>>>), Placeholder(CatP, <<2>>)>>,
      <<Transform(EmptyMap, <<1, 2>>)>>,
      <<Transform(NoiseLevel(F64(1, 1)), <<2>>), Transform(NoiseLevel(Str(LitX)), <<3>>)>>,
      <<Transform(NoiseLevel(F64(-5, 100)), <<2>>), Transform(NoiseLevel(Num("int", 1, 1)), <<3>>)>> }

\* The payloads a masking call may receive.
Payloads ==
    { Null,
      [k |-> "bool", b |-> TRUE],
      Str(LitX), Str(LitXY), Str(<<"x", "y", "x">>), Str(<<"y", "a">>), Str(LitXA), Str(<<"1", "x">>),
      F64(0, 1), F64(1, 1), F64(2, 1), F64(3, 1), Num("int", 2, 1), F64(-2, 1), F64(20001, 20000),
      Arr(<<Str(LitXY), F64(1, 1), Str(LitX)>>),
      Arr(<<Str(<<"1", "2">>), F64(1, 1), F64(2, 1)>>),
      Obj([p |-> F64(2, 1), q |-> F64(3, 1)]),
      Obj([p |-> Str(LitX), q |-> Arr(<<F64(1, 1), Null>>)]) }

\* Number of masking calls made on one Anonymizer.
MaxOps == 2

\* The tokens restore texts are written with.
TokRa == CatR \o <<"_", "a", "3", "f", "5">>

TokRb == CatR \o <<"_", "b", "1", "e", "9">>

TokP1 == CatP \o <<"_", "p", "l", "c", "_", "1">>

TokP12 == CatP \o <<"_", "p", "l", "c", "_", "1", "2">>

RestoreTokens == {TokRa, TokRb, TokP1, TokP12}

\* The mapping tables a restore call may receive.
MappingTables ==
    { EmptyMap,
      [categorical_mappings |-> (CatR :> (TokRa :> Str(LitX)))],
      [categorical_mappings |-> (CatR :> (TokRa :> Str(LitX) @@ TokRb :> Str(LitXY)))],
      [metric_placeholder_mappings |-> (TokP1 :> F64(12000, 1))],
      [categorical_mappings |-> (CatR :> (TokRa :> Str(LitX))),
       metric_placeholder_mappings |-> (TokP1 :> F64(12000, 1) @@ TokP12 :> F64(25, 2))],
      [categorical_mappings |-> (CatR :> (TokRb :> Str(LitXY))),
       metric_placeholder_mappings |-> (TokP12 :> F64(3, 1))],
      [metric_placeholder_mappings |-> (TokP1 :> F64(2 * (MaxInt + 1), 1) @@ TokP12 :> F64(-5, 2))] }

\* A text is a sequence of segments: plain text, a bare token, or a token in braces.
Plain(s) == [seg |-> "plain", s |-> s]

BareTok(t) == [seg |-> "bare", s |-> t]

BracedTok(t) == [seg |-> "braced", s |-> t]

Segments ==
    {Plain(<<" ">>), Plain(<<"v", "s">>)}
      \cup {BareTok(t) : t \in RestoreTokens} \cup {BracedTok(t) : t \in RestoreTokens}

\* Number of segments of a restore text.
MaxSegs == 2

SegTexts == UNION {[1..n -> Segments] : n \in 0..MaxSegs}

SegText(sg) == IF sg.seg = "braced" THEN Braced(sg.s) ELSE sg.s

RECURSIVE Flatten(_)
Flatten(segs) == IF segs = << >> THEN << >> ELSE SegText(Head(segs)) \o Flatten(Tail(segs))

\* Structured data a restore call may receive.
StructuredData ==
    { Null,
      F64(1, 1),
      Arr(<<Str(TokRa), Str(TokP1), Str(TokRa \o <<" ">> \o TokRb)>>),
      Obj([p |-> Str(TokP12), q |-> Arr(<<Str(TokRb), Null, F64(2, 1)>>)]) }

(***************************************************************************)
(* The requests the server may receive                                     *)
(***************************************************************************)

\* HMACAuth(cfg.Server.TimestampWindow): the window, in seconds of the model's clock.
TimestampWindow == 2

\* The readings of time.Now().Unix() while the requests are served: they arrive within a second.
Clock == {10}

SysA == <<"A">>

SysB == <<"B">>

User == <<"u">>

\* The decoded bodies, by the text of the body.
JsonBody(fields) == [valid |-> TRUE, fields |-> fields]

ServerRules == <<Placeholder(CatP, <<1, 2>>), MapCode(CatR, <<LitX>>)>>

UnknownStrategyRules == <<Rule("HASH", EmptyMap, CatR, <<Str(LitX), F64(1, 1)>>)>>

MalformedValueRules ==
    <<Rule(StrategyMapPlaceholder, EmptyMap, CatP, <<[k |-> "bool", b |-> TRUE]>>),
      Rule(StrategyMapCode, EmptyMap, CatR, <<Null, Str(LitX)>>)>>

Bodies ==
    (<<"a", "1">> :> JsonBody([anonymization_rules |-> << >>]))
    @@ (<<"a", "2">> :> JsonBody([anonymization_rules |-> ServerRules]))
    @@ (<<"a", "3">> :> JsonBody([payload |-> Obj([p |-> Str(LitX)])]))
    @@ (<<"a", "4">> :> JsonBody([payload |-> Str(LitX), anonymization_rules |-> << >>]))
    @@ (<<"a", "5">> :> JsonBody([session_id |-> <<"s">>, anonymization_rules |-> ServerRules]))
    @@ (<<"a", "6">> :> JsonBody([session_id |-> <<"s">>, payload |-> Str(LitX)]))
    @@ (<<"a", "7">> :> JsonBody([session_id |-> <<"s">>, payload |-> Str(LitX), anonymization_rules |-> << >>]))
    @@ (<<"a", "8">> :> JsonBody([session_id |-> <<"s">>, payload |-> Arr(<<F64(1, 1), Str(LitX)>>),
                                  anonymization_rules |-> ServerRules]))
    @@ (<<"a", "9">> :> JsonBody([session_id |-> <<"t">>, payload |-> Arr(<<F64(2, 1), Str(LitXY)>>),
                                  anonymization_rules |-> ServerRules]))
    @@ (<<"a", "n">> :> JsonBody([session_id |-> <<"s">>, payload |-> Arr(<<F64(3, 1), Str(<<"y">>)>>),
                                  anonymization_rules |-> ServerRules]))
    @@ (<<"a", "h">> :> JsonBody([session_id |-> <<"s">>, payload |-> Arr(<<Str(LitX), F64(1, 1)>>),
                                  anonymization_rules |-> UnknownStrategyRules]))
    @@ (<<"a", "m">> :> JsonBody([session_id |-> <<"s">>, payload |-> Arr(<<F64(0, 1), Str(LitX)>>),
                                  anonymization_rules |-> MalformedValueRules]))
    @@ (<<"a", "x">> :> [valid |-> FALSE, fields |-> EmptyMap])
    @@ (<<"d", "1">> :> JsonBody([mappings |-> [categorical_mappings |-> EmptyMap]]))
    @@ (<<"d", "2">> :> JsonBody([data_with_anonymized_codes |-> Str(TokRa)]))
    @@ (<<"d", "3">> :> JsonBody([data_with_anonymized_codes |-> Str(TokRa), mappings |-> EmptyMap]))
    @@ (<<"d", "4">> :> JsonBody([data_with_anonymized_codes |-> Str(TokRa),
                                  mappings |-> [categorical_mappings |-> EmptyMap]]))
    @@ (<<"d", "5">> :> JsonBody([data_with_anonymized_codes |-> Str(TokRa),
                                  mappings |-> [categorical_mappings |-> (CatR :> EmptyMap),
                                                metric_placeholder_mappings |-> EmptyMap]]))
    @@ (<<"d", "6">> :> JsonBody([data_with_anonymized_codes |-> Arr(<<Str(TokRa), Str(TokP1)>>),
                                  mappings |-> [categorical_mappings |-> (CatR :> (TokRa :> Str(LitX))),
                                                metric_placeholder_mappings |-> (TokP1 :> F64(12000, 1))]]))

\* c.ShouldBindJSON(&req)
ShouldBindJSON(bodyBytes) == Bodies[bodyBytes]

\* The path of a body: POST /v1/anonymize or POST /v1/decrypt.
Endpoint(bodyBytes) == IF Head(bodyBytes) = "a" THEN "anonymize" ELSE "decrypt"

\* The signature a client computes (generateSignature).
generateSignature(secret, systemID, userID, timestampStr, bodyBytes) ==
    calculateHMAC(secret, systemID \o userID \o timestampStr \o Sha256Hex(bodyBytes))

\* What a client put into the Authorization header: the scheme and the parameters, in order.
Credentials(scheme, systemID, userID, timestampStr, signature) ==
    [scheme |-> scheme,
     pairs |-> <<<<KeySystemID, systemID>>, <<KeyUserID, userID>>,
                 <<KeyTimestamp, timestampStr>>, <<KeySignature, signature>>>>]

\* The credentials of a client of the system that signs with secret at time timestamp.
Signed(secret, systemID, timestamp, bodyBytes) ==
    Credentials(AuthScheme, systemID, User, FmtInt(timestamp),
                generateSignature(secret, systemID, User, FmtInt(timestamp), bodyBytes))

\* The text of the header: scheme, a space, key=value pairs joined by sep.
RECURSIVE JoinPairs(_, _)
JoinPairs(pairs, sep) ==
    IF pairs = << >> THEN << >>
    ELSE Head(pairs)[1] \o <<"=">> \o Head(pairs)[2]
         \o (IF Len(pairs) > 1 THEN sep ELSE << >>) \o JoinPairs(Tail(pairs), sep)

AuthHeader(cred, sep) == cred.scheme \o <<" ">> \o JoinPairs(cred.pairs, sep)

\* A request: the header as sent, what the client put into it, and the body.
Request(header, cred, bodyBytes, readable) ==
    [header |-> header, cred |-> cred, bodyBytes |-> bodyBytes, readable |-> readable]

SignedRequest(secret, systemID, timestamp, bodyBytes) ==
    Request(AuthHeader(Signed(secret, systemID, timestamp, bodyBytes), <<",">>),
            Signed(secret, systemID, timestamp, bodyBytes), bodyBytes, TRUE)

NoCredentials == [scheme |-> << >>, pairs |-> << >>]

GoodBody == <<"a", "8">>

SecretA == GetSystemConfig[SysA].SharedSecret

SecretB == GetSystemConfig[SysB].SharedSecret

\* The earliest time the clock shows.
Now0 == CHOOSE t \in Clock : \A u \in Clock : t <= u

\* The texts of the bodies, in the order of Bodies.
BodyTexts ==
    << <<"a", "1">>, <<"a", "2">>, <<"a", "3">>, <<"a", "4">>, <<"a", "5">>, <<"a", "6">>, <<"a", "7">>,
       <<"a", "8">>, <<"a", "9">>, <<"a", "n">>, <<"a", "h">>, <<"a", "m">>, <<"a", "x">>,
       <<"d", "1">>, <<"d", "2">>, <<"d", "3">>, <<"d", "4">>, <<"d", "5">>, <<"d", "6">> >>

Requests ==
    [i \in 1..Len(BodyTexts) |-> SignedRequest(SecretA, SysA, Now0, BodyTexts[i])]
    \o
    << \* no Authorization header
      Request(<< >>, NoCredentials, GoodBody, TRUE),
      \* only the scheme, no space
      Request(AuthScheme, [scheme |-> AuthScheme, pairs |-> << >>], GoodBody, TRUE),
      \* another scheme
      Request(AuthHeader([Signed(SecretA, SysA, Now0, GoodBody) EXCEPT !.scheme = <<"B", "a", "s", "i", "c">>], <<",">>),
              [Signed(SecretA, SysA, Now0, GoodBody) EXCEPT !.scheme = <<"B", "a", "s", "i", "c">>], GoodBody, TRUE),
      \* no Signature parameter
      Request(AuthHeader([Signed(SecretA, SysA, Now0, GoodBody) EXCEPT !.pairs = SubSeq(@, 1, 3)], <<",">>),
              [Signed(SecretA, SysA, Now0, GoodBody) EXCEPT !.pairs = SubSeq(@, 1, 3)], GoodBody, TRUE),
      \* an empty UserID
      Request(AuthHeader([Signed(SecretA, SysA, Now0, GoodBody) EXCEPT !.pairs[2][2] = << >>], <<",">>),
              [Signed(SecretA, SysA, Now0, GoodBody) EXCEPT !.pairs[2][2] = << >>], GoodBody, TRUE),
      \* a system that is not configured
      SignedRequest(SecretA, <<"Z">>, Now0, GoodBody),
      \* a timestamp that is not a number
      Request(AuthHeader(Credentials(AuthScheme, SysA, User, <<"1", "x">>,
                                     generateSignature(SecretA, SysA, User, <<"1", "x">>, GoodBody)), <<",">>),
              Credentials(AuthScheme, SysA, User, <<"1", "x">>,
                          generateSignature(SecretA, SysA, User, <<"1", "x">>, GoodBody)), GoodBody, TRUE),
      \* timestamps before the window, at its edge, after it, and half the integer range away
      SignedRequest(SecretA, SysA, Now0 - TimestampWindow - 1, GoodBody),
      SignedRequest(SecretA, SysA, Now0 + TimestampWindow, GoodBody),
      SignedRequest(SecretA, SysA, Now0 + TimestampWindow + 1, GoodBody),
      SignedRequest(SecretA, SysA, Now0 + MinInt, GoodBody),
      \* signed with the secret of another system, and for another body
      SignedRequest(SecretB, SysA, Now0, GoodBody),
      Request(AuthHeader(Signed(SecretA, SysA, Now0, <<"a", "9">>), <<",">>),
              Signed(SecretA, SysA, Now0, <<"a", "9">>), GoodBody, TRUE),
      \* a body that cannot be read
      Request(AuthHeader(Signed(SecretA, SysA, Now0, GoodBody), <<",">>),
              Signed(SecretA, SysA, Now0, GoodBody), GoodBody, FALSE),
      \* the second system, and a header with spaces after the commas
      SignedRequest(SecretB, SysB, Now0, GoodBody),
      Request(AuthHeader(Signed(SecretA, SysA, Now0, <<"a", "9">>), <<",", " ">>),
              Signed(SecretA, SysA, Now0, <<"a", "9">>), <<"a", "9">>, TRUE) >>

\* Number of requests served concurrently.
MaxRequests == 2

(***************************************************************************)
(* The state machine: one Anonymizer session, and restore calls            *)
(***************************************************************************)

VARIABLES
    anonymizer,   \* the Anonymizer
    payload,      \* argument of the last Anonymize call
    result,       \* its result
    restored,     \* result of the text-mode restore of the wrapped result
    op,           \* the last operation
    nops,         \* number of Anonymize calls so far
    dtable,       \* mapping table of the last restore call
    dsegs,        \* the segments its text was written with
    ddata,        \* its data
    dout,         \* its result
    requests,     \* the requests the server is serving
    heap          \* the cells of the last call on held values, its argument and its result

vars == <<anonymizer, payload, result, restored, op, nops, dtable, dsegs, ddata, dout, requests, heap>>

maskVars == <<anonymizer, payload, result, restored, nops>>

restoreVars == <<dtable, dsegs, ddata, dout>>

\* No call on held values was made yet.
NoHeap == [cells |-> << >>, input |-> Null, output |-> Null, rules |-> << >>]

InitMask ==
    /\ payload = Null
    /\ result = Null
    /\ restored = Null
    /\ op = "NewAnonymizer"
    /\ nops = 0

InitRestore ==
    /\ dtable = EmptyMap
    /\ dsegs = << >>
    /\ ddata = Null
    /\ dout = Null

Init ==
    /\ anonymizer \in {NewAnonymizer(rs) : rs \in RuleSets}
    /\ InitMask
    /\ InitRestore
    /\ requests = << >>
    /\ heap = NoHeap

\* anonymizer.Anonymize(p)
Mask ==
    /\ nops < MaxOps
    /\ \E p \in Payloads : \E o \in Anonymize(anonymizer, p) :
         /\ anonymizer' = o.a
         /\ payload' = p
         /\ result' = o.out
    /\ restored' = Null
    /\ op' = "Anonymize"
    /\ nops' = nops + 1
    /\ UNCHANGED restoreVars
    /\ UNCHANGED <<requests, heap>>

\* The consumer wraps the tokens of the masked payload and the text-only Decryptor,
\* built from the mappings of this session, restores it.
Restore ==
    /\ op = "Anonymize"
    /\ LET mappings == GetMappings(anonymizer)
       IN \E d \in NewDecryptor(EncodeMappings(mappings)) :
            restored' \in RestoreLeaves(d, WrapPayload(result, TokensOf(mappings)))
    /\ op' = "Restore"
    /\ UNCHANGED <<anonymizer, payload, result, nops>>
    /\ UNCHANGED restoreVars
    /\ UNCHANGED <<requests, heap>>

\* The masked payload goes back as it is, with the mappings of this session, to the
\* structured Decryptor (the integration test's second request).
RestoreStructured ==
    /\ op = "Anonymize"
    /\ \E d \in NewDecryptor(EncodeMappings(GetMappings(anonymizer))) :
         restored' \in Decrypt(d, result)
    /\ op' = "Decrypt"
    /\ UNCHANGED <<anonymizer, payload, result, nops>>
    /\ UNCHANGED restoreVars
    /\ UNCHANGED <<requests, heap>>

Next == Mask \/ Restore \/ RestoreStructured

Spec == Init /\ [][Next]_vars

(***************************************************************************)
(* Restore calls on their own: a mapping table and a text or a JSON value  *)
(***************************************************************************)

\* A Decryptor is built per call and discarded: each behaviour makes one restore call.
InitDecrypt ==
    /\ anonymizer = NewAnonymizer(<< >>)
    /\ payload = Null
    /\ result = Null
    /\ restored = Null
    /\ op = "NewDecryptor"
    /\ nops = 0
    /\ InitRestore
    /\ requests = << >>
    /\ heap = NoHeap

\* NewDecryptor(mappings).Decrypt(text) of the text-only Decryptor
DecryptText ==
    /\ op = "NewDecryptor"
    /\ \E table \in MappingTables : \E segs \in SegTexts : \E d \in NewDecryptor(table) :
         /\ dtable' = table
         /\ dsegs' = segs
         /\ ddata' = Str(Flatten(segs))
         /\ dout' \in {Str(t) : t \in DecryptDelimited(d, Flatten(segs))}
    /\ op' = "DecryptText"
    /\ UNCHANGED maskVars
    /\ UNCHANGED <<requests, heap>>

\* NewDecryptor(mappings).Decrypt(data) of the structured Decryptor, data a string
DecryptString ==
    /\ op = "NewDecryptor"
    /\ \E table \in MappingTables : \E segs \in SegTexts : \E d \in NewDecryptor(table) :
         /\ dtable' = table
         /\ dsegs' = segs
         /\ ddata' = Str(Flatten(segs))
         /\ dout' \in Decrypt(d, Str(Flatten(segs)))
    /\ op' = "DecryptString"
    /\ UNCHANGED maskVars
    /\ UNCHANGED <<requests, heap>>

\* NewDecryptor(mappings).Decrypt(data) of the structured Decryptor, data a JSON value
DecryptData ==
    /\ op = "NewDecryptor"
    /\ \E table \in MappingTables : \E data \in StructuredData : \E d \in NewDecryptor(table) :
         /\ dtable' = table
         /\ dsegs' = << >>
         /\ ddata' = data
         /\ dout' \in Decrypt(d, data)
    /\ op' = "DecryptData"
    /\ UNCHANGED maskVars
    /\ UNCHANGED <<requests, heap>>

NextDecrypt == DecryptText \/ DecryptString \/ DecryptData

SpecDecrypt == InitDecrypt /\ [][NextDecrypt]_vars

(***************************************************************************)
(* The server: every request is served by its own goroutine, which runs    *)
(* HMACAuth and then the handler of its path                               *)
(***************************************************************************)

sessionVars == <<anonymizer, payload, result, restored, op, nops, dtable, dsegs, ddata, dout, heap>>

NoResponse == [status |-> 0, body |-> EmptyMap]

\* A request as the router hands it to its goroutine.
Received(req) ==
    [req |-> req, pc |-> "received", now |-> 0, ctx |-> EmptyMap,
     anonymizer |-> NewAnonymizer(<< >>), anonymizedPayload |-> Null, response |-> NoResponse,
     returned |-> NoResponse]

InitServer ==
    /\ anonymizer = NewAnonymizer(<< >>)
    /\ heap = NoHeap
    /\ InitMask
    /\ InitRestore
    /\ \E idx \in [1..MaxRequests -> 1..Len(Requests)] :
         /\ \A i \in 1..(MaxRequests - 1) : idx[i] <= idx[i + 1]
         /\ requests = [i \in 1..MaxRequests |-> Received(Requests[idx[i]])]

\* The requests after request i wrote response and returned.
Responded(reqs, i, response) == [reqs EXCEPT ![i].pc = "done", ![i].response = response]

\* The Anonymizer of request i taken from a request that already holds one.
CreatedShared(reqs, i, a) ==
    IF \E j \in DOMAIN reqs : j # i /\ reqs[j].pc \in {"created", "anonymized", "done"}
                                     /\ reqs[j].anonymizer # NewAnonymizer(<< >>)
    THEN LET j == CHOOSE j \in DOMAIN reqs : j # i /\ reqs[j].pc \in {"created", "anonymized", "done"}
                                                  /\ reqs[j].anonymizer # NewAnonymizer(<< >>)
         IN [reqs EXCEPT ![i].pc = "created",
                         ![i].anonymizer = [reqs[j].anonymizer EXCEPT !.rules = a.rules,
                                                                      !.ghostIssued = {}, !.ghostFresh = << >>]]
    ELSE [reqs EXCEPT ![i].pc = "created", ![i].anonymizer = a]

\* anonymizer := service.NewAnonymizer(req.AnonymizationRules): a local variable of Handle.
Created(reqs, i, a) == [reqs EXCEPT ![i].pc = "created", ![i].anonymizer = a]

\* The middleware HMACAuth on request i.
Authenticate(i) ==
    /\ requests[i].pc = "received"
    /\ \E now \in Clock :
         LET auth == HMACAuth(TimestampWindow, requests[i].req, now)
         IN requests' = IF auth.next
                        THEN [requests EXCEPT ![i].pc = "handler", ![i].now = now, ![i].ctx = auth.ctx]
                        ELSE [Responded(requests, i, ErrorResponse(auth.status, auth.error)) EXCEPT ![i].now = now]
    /\ UNCHANGED sessionVars

\* AnonymizationHandler.Handle: binding, validation, NewAnonymizer.
Begin(i) ==
    /\ requests[i].pc = "handler"
    /\ Endpoint(requests[i].req.bodyBytes) = "anonymize"
    /\ LET begin == HandleBegin(ShouldBindJSON(requests[i].req.bodyBytes))
       IN requests' = IF "response" \in DOMAIN begin
                      THEN Responded(requests, i, begin.response)
                      ELSE Created(requests, i, begin.anonymizer)
    /\ UNCHANGED sessionVars

\* AnonymizationHandler.Handle: anonymizer.Anonymize(req.Payload), which returns no error.
AnonymizePayload(i) ==
    /\ requests[i].pc = "created"
    /\ \E o \in Anonymize(requests[i].anonymizer, ShouldBindJSON(requests[i].req.bodyBytes).fields["payload"]) :
         requests' = [requests EXCEPT ![i].pc = "anonymized", ![i].anonymizer = o.a,
                                      ![i].anonymizedPayload = o.out]
    /\ UNCHANGED sessionVars

\* AnonymizationHandler.Handle: GetMappings and the response.
Respond(i) ==
    /\ requests[i].pc = "anonymized"
    /\ requests' = Responded(requests, i,
                      AnonymizationResponse(ShouldBindJSON(requests[i].req.bodyBytes).fields["session_id"],
                                            requests[i].anonymizedPayload, GetMappings(requests[i].anonymizer)))
    /\ UNCHANGED sessionVars

\* DecryptionHandler.Handle
ServeDecryption(i) ==
    /\ requests[i].pc = "handler"
    /\ Endpoint(requests[i].req.bodyBytes) = "decrypt"
    /\ \E response \in HandleDecryption(ShouldBindJSON(requests[i].req.bodyBytes)) :
         requests' = Responded(requests, i, response)
    /\ UNCHANGED sessionVars

\* The caller sends the anonymized payload and the mappings of response i back, unchanged,
\* in a decrypt request of its own: DecryptionHandler.Handle on that body.
DecryptReturned(i) ==
    /\ requests[i].pc = "done"
    /\ Endpoint(requests[i].req.bodyBytes) = "anonymize"
    /\ requests[i].response.status = StatusOK
    /\ requests[i].returned = NoResponse
    /\ \E response \in HandleDecryption(
                         JsonBody([data_with_anonymized_codes |-> requests[i].response.body.anonymized_payload,
                                   mappings |-> EncodeMappings(requests[i].response.body.mappings_to_store)])) :
         requests' = [requests EXCEPT ![i].returned = response]
    /\ UNCHANGED sessionVars

NextServer ==
    \E i \in 1..MaxRequests :
       \/ Authenticate(i) \/ Begin(i) \/ AnonymizePayload(i) \/ Respond(i) \/ ServeDecryption(i)
       \/ DecryptReturned(i)

SpecServer == InitServer /\ [][NextServer]_vars

(***************************************************************************)
(* Calls on held values: the caller keeps its payload, its rule list and   *)
(* its data and looks at them after the call                               *)
(***************************************************************************)

InitFrame ==
    /\ \E rules \in RuleSets :
         /\ anonymizer = NewAnonymizer(rules)
         /\ heap = [NoHeap EXCEPT !.rules = rules]
    /\ InitMask
    /\ InitRestore
    /\ requests = << >>

\* anonymizer.Anonymize(payload) on a payload the caller holds.
MaskHeld ==
    /\ op = "NewAnonymizer"
    /\ \E p \in Payloads :
         LET st == Store(<< >>, p)
         IN \E o \in anonymizeValueAt(anonymizer, st.cells, st.hv) :
              /\ anonymizer' = o.a
              /\ payload' = p
              /\ result' = Deref(o.cells, o.out)
              /\ heap' = [heap EXCEPT !.cells = o.cells, !.input = st.hv, !.output = o.out]
    /\ restored' = Null
    /\ op' = "Anonymize"
    /\ nops' = nops + 1
    /\ UNCHANGED restoreVars
    /\ UNCHANGED requests

\* NewDecryptor(mappings).Decrypt(data) on data the caller holds.
DecryptHeld ==
    /\ op = "NewAnonymizer"
    /\ \E table \in MappingTables : \E data \in StructuredData : \E d \in NewDecryptor(table) :
         LET st == Store(<< >>, data)
         IN \E o \in DecryptAt(d, st.cells, st.hv) :
              /\ dtable' = table
              /\ dsegs' = << >>
              /\ ddata' = data
              /\ dout' = Deref(o.cells, o.out)
              /\ heap' = [heap EXCEPT !.cells = o.cells, !.input = st.hv, !.output = o.out]
    /\ op' = "DecryptData"
    /\ UNCHANGED maskVars
    /\ UNCHANGED requests

NextFrame == MaskHeld \/ DecryptHeld

SpecFrame == InitFrame /\ [][NextFrame]_vars

(***************************************************************************)
(* Properties                                                              *)
(***************************************************************************)

ReversibleOnly(rules) ==
    \A i \in 1..Len(rules) :
       rules[i].Strategy \in {StrategyMapCode, StrategyMapPlaceholder, StrategyPassthrough}

\* C1 (round trip): masking a payload with a fresh Anonymizer whose rules use only
\* MAP_CODE, MAP_PLACEHOLDER and PASSTHROUGH, wrapping every emitted token in braces and
\* restoring with the mappings of that Anonymizer yields exactly the payload.
RoundTrip ==
    (op = "Restore" /\ nops = 1 /\ ReversibleOnly(anonymizer.rules)) => restored = payload

CodesIssued == {e \in anonymizer.ghostIssued : e.kind = "code"}

\* C2 (idempotent code assignment): every occurrence of a value under a MAP_CODE rule of a
\* category got the identical code, and the returned mapping table maps that code back to
\* the value.
IdempotentCodeAssignment ==
    /\ \A e1, e2 \in CodesIssued :
         (e1.cat = e2.cat /\ e1.value = e2.value) => e1.token = e2.token
    /\ \A e \in CodesIssued :
         LET mappings == GetMappings(anonymizer)
         IN /\ "categorical_mappings" \in DOMAIN mappings
            /\ e.cat \in DOMAIN mappings["categorical_mappings"]
            /\ e.token \in DOMAIN mappings["categorical_mappings"][e.cat]
            /\ mappings["categorical_mappings"][e.cat][e.token] = e.value.s

\* C3 (distinctness): two different values under the same category never receive the same code.
Distinctness ==
    \A e1, e2 \in CodesIssued :
       (e1.cat = e2.cat /\ e1.value # e2.value) => e1.token # e2.token

\* The text a token of the mapping table stands for: the original string of a code, the
\* formatted value of a placeholder.
KnownTokens(table) ==
    (IF "categorical_mappings" \in DOMAIN table
     THEN UNION {DOMAIN table["categorical_mappings"][t] : t \in DOMAIN table["categorical_mappings"]}
     ELSE {})
    \cup (IF "metric_placeholder_mappings" \in DOMAIN table
          THEN DOMAIN table["metric_placeholder_mappings"] ELSE {})

OriginalText(table, token) ==
    IF "metric_placeholder_mappings" \in DOMAIN table /\ token \in DOMAIN table["metric_placeholder_mappings"]
    THEN formatValue(table["metric_placeholder_mappings"][token])
    ELSE LET cm == table["categorical_mappings"]
             t  == CHOOSE t \in DOMAIN cm : token \in DOMAIN cm[t]
         IN {cm[t][token].s}

\* What the delimiter convention makes of a text: a known token in braces becomes its
\* original, everything else stays.  The texts a build of the program can give.
RECURSIVE Delimited(_, _)
Delimited(table, segs) ==
    IF segs = << >> THEN {<< >>}
    ELSE {h \o t : h \in (IF Head(segs).seg = "braced" /\ Head(segs).s \in KnownTokens(table)
                          THEN OriginalText(table, Head(segs).s)
                          ELSE {SegText(Head(segs))}),
                   t \in Delimited(table, Tail(segs))}

\* C4 (delimiter discipline): restore replaces only the occurrences of a known token that
\* are wrapped in braces; a bare occurrence of a known token is left exactly as received.
DelimiterDiscipline ==
    op \in {"DecryptText", "DecryptString"} => dout \in {Str(t) : t \in Delimited(dtable, dsegs)}

MapCodeLiterals(rules) ==
    {p.value : p \in {q \in {Replacements(rules)[i] : i \in 1..Len(Replacements(rules))} :
                        q.rule.Strategy = StrategyMapCode}}

StringLiterals(rules) == {Replacements(rules)[i].value : i \in 1..Len(Replacements(rules))}

\* The pairs of MAP_CODE literals of which the second is a proper substring of the first.
OverlappingPairs(rules) ==
    {pr \in MapCodeLiterals(rules) \X MapCodeLiterals(rules) : pr[1] # pr[2] /\ Contains(pr[1], pr[2])}

\* C6 as stated (longest-match precedence): when two MAP_CODE literals overlap, the output
\* of masking any string contains no occurrence of either literal.
NoLiteralLeft ==
    (op = "Anonymize" /\ payload.k = "str") =>
       \A pr \in OverlappingPairs(anonymizer.rules) :
          ~Contains(result.s, pr[1]) /\ ~Contains(result.s, pr[2])

\* The characters a token can be written with: those of the category names, "_", the hex digits.
TokenChars(rules) ==
    {"_"} \cup {HexDigits[i] : i \in 1..Len(HexDigits)}
      \cup UNION {{rules[i].Type[j] : j \in 1..Len(rules[i].Type)} : i \in 1..Len(rules)}

TokenFree(rules) ==
    \A l \in StringLiterals(rules) :
       l # << >> /\ \A j \in 1..Len(l) : l[j] \notin TokenChars(rules)

\* The codes the memo holds for a literal, over the MAP_CODE rules.
CodesOf(a, l) ==
    {a.valueToCode[key] : key \in {k \in DOMAIN a.valueToCode :
        \E i \in 1..Len(a.rules) : a.rules[i].Strategy = StrategyMapCode
                                   /\ k = a.rules[i].Type \o <<":">> \o l}}

\* C6 as amended: literals are replaced in descending length, so a longest literal found in
\* the input is replaced by its own code before a shorter one is considered; when every
\* string literal of the rule set is non-empty and has no character a token can contain,
\* the output contains no occurrence of either literal of an overlapping pair.
LongestMatchPrecedence ==
    (op = "Anonymize" /\ payload.k = "str" /\ TokenFree(anonymizer.rules)) =>
       \A pr \in OverlappingPairs(anonymizer.rules) :
          /\ ~Contains(result.s, pr[1])
          /\ ~Contains(result.s, pr[2])
          /\ (/\ Contains(payload.s, pr[1])
              /\ \A l \in StringLiterals(anonymizer.rules) :
                   (l # pr[1] /\ Len(l) >= Len(pr[1])) => ~Contains(payload.s, l))
             => \E c \in CodesOf(anonymizer, pr[1]) : Contains(result.s, c)

\* C6 witness: "xyx" masked under rules for "x" and "xy".
LongestMatchPrecedenceWitness ==
    /\ op = "Anonymize"
    /\ payload = Str(<<"x", "y", "x">>)
    /\ TokenFree(anonymizer.rules)
    /\ <<LitXY, LitX>> \in OverlappingPairs(anonymizer.rules)
    /\ \E c \in CodesOf(anonymizer, LitXY) : Contains(result.s, c)

Lcm(a, b) == (a \div Gcd(a, b)) * b

\* |y - x| as a fraction over the common denominator of x and y.
Distance(x, y) ==
    LET l == Lcm(x.den, y.den)
    IN F64(Abs(y.u * (l \div y.den) - x.u * (l \div x.den)), l)

\* a <= b for two fractions
Leq(a, b) ==
    LET l == Lcm(a.den, b.den)
    IN a.u * (l \div a.den) <= b.u * (l \div b.den)

\* x * l for two fractions
Times(x, l) == F64(x.u * l.u, x.den * l.den)

Magnitude(x) == F64(Abs(x.u), x.den)

\* The rule anonymizeNumber applies to n: the first whose values hold a number equal to n.
MatchingRules(rules, n) ==
    {i \in 1..Len(RuleValuePairs(rules)) : compareNumbers(RuleValuePairs(rules)[i].value, n)}

FirstMatch(rules, n) ==
    RuleValuePairs(rules)[CHOOSE i \in MatchingRules(rules, n) :
                             \A j \in MatchingRules(rules, n) : i <= j].rule

\* The noise level of a rule as the claim reads it: noise_level when it is a number, else 0.05.
NoiseLevelOf(rule) ==
    IF "noise_level" \in DOMAIN rule.StrategyParams /\ rule.StrategyParams["noise_level"].k = "num"
    THEN rule.StrategyParams["noise_level"]
    ELSE DefaultNoiseLevel

Transformed ==
    /\ op = "Anonymize"
    /\ payload.k = "num"
    /\ MatchingRules(anonymizer.rules, payload) # {}
    /\ FirstMatch(anonymizer.rules, payload).Strategy = StrategyTransform

PlaceholdersIssued == {e \in anonymizer.ghostIssued : e.kind = "plc"}

SameNumber(v, w) == v.u = w.u /\ v.den = w.den

\* The placeholders newly generated in this session, in the order of their generation.
FreshPlaceholders == SelectSeq(anonymizer.ghostFresh, LAMBDA e : e.kind = "plc")

PlaceholderName(cat, n) == cat \o <<"_", "p", "l", "c", "_">> \o FmtInt(n)

\* C8 (placeholder issuance): the same number under a MAP_PLACEHOLDER category always gets
\* the same placeholder, different numbers get different placeholders, and the sequence
\* numbers issued are 1, 2, 3, ... in the order of issue, none used twice.
PlaceholderIssuance ==
    /\ \A e1, e2 \in PlaceholdersIssued :
         (e1.cat = e2.cat /\ SameNumber(e1.value, e2.value)) => e1.token = e2.token
    /\ \A e1, e2 \in PlaceholdersIssued :
         ~SameNumber(e1.value, e2.value) => e1.token # e2.token
    /\ \A i \in 1..Len(FreshPlaceholders) : FreshPlaceholders[i].n = i

\* The number of placeholders generated for a category among the first i.
CountFor(cat, i) == Cardinality({j \in 1..i : FreshPlaceholders[j].cat = cat})

\* C9 as stated (per-category numbering): the k-th distinct value tokenised under category c
\* receives c_plc_k, whatever was issued for other categories.
PerCategoryNumbering ==
    \A i \in 1..Len(FreshPlaceholders) :
       FreshPlaceholders[i].token
         = PlaceholderName(FreshPlaceholders[i].cat, CountFor(FreshPlaceholders[i].cat, i))

\* C9 as amended: the sequence numbers are counted per session over all categories: the k-th
\* placeholder generated in the session, under whatever category c, is c_plc_k.
SessionWideNumbering ==
    /\ \A i \in 1..Len(FreshPlaceholders) :
         FreshPlaceholders[i].token = PlaceholderName(FreshPlaceholders[i].cat, i)
    /\ anonymizer.placeholderCounter = Len(FreshPlaceholders)
    /\ \A i \in 1..Len(FreshPlaceholders) :
         /\ FreshPlaceholders[i].token \in DOMAIN anonymizer.metricPlaceholderMappings
         /\ anonymizer.metricPlaceholderMappings[FreshPlaceholders[i].token] = FreshPlaceholders[i].value

\* C9 witness: the second placeholder of the session is the first of its category.
SessionWideNumberingWitness ==
    /\ Len(FreshPlaceholders) >= 2
    /\ FreshPlaceholders[1].cat # FreshPlaceholders[2].cat
    /\ FreshPlaceholders[2].token = PlaceholderName(FreshPlaceholders[2].cat, 2)

RECURSIVE SameShape(_, _)
SameShape(p, r) ==
    IF p.k = "obj"
    THEN r.k = "obj" /\ DOMAIN r.m = DOMAIN p.m /\ \A key \in DOMAIN p.m : SameShape(p.m[key], r.m[key])
    ELSE IF p.k = "arr"
    THEN r.k = "arr" /\ Len(r.items) = Len(p.items)
         /\ \A i \in 1..Len(p.items) : SameShape(p.items[i], r.items[i])
    ELSE IF p.k = "null" THEN r = Null
    ELSE IF p.k \in {"str", "bool"} THEN r.k = p.k
    ELSE r.k \in {"num", "str"}

\* C10 (structure preservation): masking returns a value of the shape of the payload: an
\* object with exactly the same keys, an array of the same length and order, null for null;
\* with an empty rule set the result equals the payload.
StructurePreservation ==
    op = "Anonymize" =>
       /\ SameShape(payload, result)
       /\ anonymizer.rules = << >> => result = payload

\* C10 witness: a nested object was masked and a leaf of it changed.
StructurePreservationWitness ==
    /\ op = "Anonymize"
    /\ payload.k = "obj"
    /\ \E key \in DOMAIN payload.m : payload.m[key].k = "arr"
    /\ result # payload

\* rule.AppliesTo.Values holds v: a string by equality, a number by compareNumbers.
ListsValue(rule, v) ==
    \E i \in 1..Len(rule.Values) :
       IF v.k = "str" THEN rule.Values[i] = v
       ELSE rule.Values[i].k = "num" /\ compareNumbers(rule.Values[i], v)

\* The positions of the rules that list the value.
Claiming(rules, v) == {i \in 1..Len(rules) : ListsValue(rules[i], v)}

ClaimedOnlyByPassthrough(rules, v) ==
    /\ v.k \in {"str", "num"}
    /\ Claiming(rules, v) # {}
    /\ \A i \in Claiming(rules, v) : rules[i].Strategy = StrategyPassthrough

\* The originals the mapping table of the Anonymizer holds.
Originals(a) ==
    UNION {{Str(a.categoricalMappings[t][c]) : c \in DOMAIN a.categoricalMappings[t]}
           : t \in DOMAIN a.categoricalMappings}
      \cup {a.metricPlaceholderMappings[p] : p \in DOMAIN a.metricPlaceholderMappings}

\* Every leaf of p that only PASSTHROUGH rules claim is the same in r and has no table entry.
RECURSIVE PassthroughLeavesKept(_, _, _)
PassthroughLeavesKept(a, p, r) ==
    IF p.k = "obj" THEN \A key \in DOMAIN p.m : PassthroughLeavesKept(a, p.m[key], r.m[key])
    ELSE IF p.k = "arr" THEN \A i \in 1..Len(p.items) : PassthroughLeavesKept(a, p.items[i], r.items[i])
    ELSE ClaimedOnlyByPassthrough(a.rules, p) =>
           /\ r = p
           /\ \A o \in Originals(a) : o.k = p.k => (IF p.k = "str" THEN o # p ELSE ~SameNumber(o, p))

\* C11 (PASSTHROUGH keeps data unchanged): a payload leaf, string or number, equal to a value
\* that only a PASSTHROUGH rule claims comes out of masking identical to the input, and the
\* mapping table has no entry for it.
PassthroughUnchanged ==
    op = "Anonymize" => PassthroughLeavesKept(anonymizer, payload, result)

\* The first-listed of the rules that list the value.
FirstClaiming(rules, v) == rules[CHOOSE i \in Claiming(rules, v) : \A j \in Claiming(rules, v) : i <= j]

\* The output r is what the strategy and category of the rule make of the leaf v.
AppliedTo(a, rule, v, r) ==
    IF v.k = "str" /\ rule.Strategy = StrategyMapCode
    THEN /\ (rule.Type \o <<":">> \o v.s) \in DOMAIN a.valueToCode
         /\ r = Str(a.valueToCode[rule.Type \o <<":">> \o v.s])
    ELSE IF v.k = "num" /\ rule.Strategy = StrategyMapPlaceholder
    THEN /\ (rule.Type \o <<":">> \o FmtV(v)) \in DOMAIN a.valueToCode
         /\ r = Str(a.valueToCode[rule.Type \o <<":">> \o FmtV(v)])
    ELSE IF v.k = "num" /\ rule.Strategy = StrategyTransform
    THEN r.k = "num" /\ r.ty = "float64"
    ELSE r = v

\* Every leaf of p that several rules list came out as the first-listed of them makes it.
RECURSIVE TieBreakLeaves(_, _, _)
TieBreakLeaves(a, p, r) ==
    IF p.k = "obj" THEN \A key \in DOMAIN p.m : TieBreakLeaves(a, p.m[key], r.m[key])
    ELSE IF p.k = "arr" THEN \A i \in 1..Len(p.items) : TieBreakLeaves(a, p.items[i], r.items[i])
    ELSE (p.k \in {"str", "num"} /\ Cardinality(Claiming(a.rules, p)) >= 2) =>
           AppliedTo(a, FirstClaiming(a.rules, p), p, r)

\* C12 (deterministic tie-break): a leaf equal to a literal that several rules list is masked
\* with the strategy and category of the first-listed of those rules, whatever other
\* literals the rule set contains.
FirstListedRuleWins ==
    op = "Anonymize" => TieBreakLeaves(anonymizer, payload, result)

\* The originals a mapping table stores for a token, with their types.
StoredOriginals(table, token) ==
    (IF "metric_placeholder_mappings" \in DOMAIN table /\ token \in DOMAIN table["metric_placeholder_mappings"]
     THEN {table["metric_placeholder_mappings"][token]} ELSE {})
    \cup (IF "categorical_mappings" \in DOMAIN table
          THEN {table["categorical_mappings"][t][token]
                : t \in {u \in DOMAIN table["categorical_mappings"] : token \in DOMAIN table["categorical_mappings"][u]}}
          ELSE {})

\* out is data with every whole-field token replaced by its stored original, the keys,
\* lengths and order kept, and the leaves that are not strings as they were.
RECURSIVE WholeFieldRestored(_, _, _)
WholeFieldRestored(table, data, out) ==
    IF data.k = "obj"
    THEN /\ out.k = "obj" /\ DOMAIN out.m = DOMAIN data.m
         /\ \A key \in DOMAIN data.m : WholeFieldRestored(table, data.m[key], out.m[key])
    ELSE IF data.k = "arr"
    THEN /\ out.k = "arr" /\ Len(out.items) = Len(data.items)
         /\ \A i \in 1..Len(data.items) : WholeFieldRestored(table, data.items[i], out.items[i])
    ELSE IF data.k = "str"
    THEN IF data.s \in KnownTokens(table) THEN out \in StoredOriginals(table, data.s) ELSE out.k = "str"
    ELSE out = data

\* C13 (structured restore of whole-field tokens): at every depth of a JSON object or array
\* a string leaf whose whole content is a known code or placeholder is replaced by the
\* stored original with its type (a number stays a number), and the keys, the array
\* lengths and the order are those of the input.
StructuredRestore ==
    (op = "DecryptData" /\ ddata.k \in {"obj", "arr"}) => WholeFieldRestored(dtable, ddata, dout)

\* C13 witness: a placeholder that is the whole of a field inside an array came back as the
\* number stored for it.
StructuredRestoreWitness ==
    /\ op = "DecryptData"
    /\ ddata.k = "arr"
    /\ \E i \in 1..Len(ddata.items) :
         /\ ddata.items[i] = Str(TokP1)
         /\ dout.items[i] = F64(12000, 1)

\* C14 (order independence of text restore): the restored text is the same whatever order
\* the tokens of the mapping table are substituted in: the text and the mapping table
\* admit one result only.
OrderIndependence ==
    /\ op = "DecryptText" =>
          \A d \in NewDecryptor(dtable) : {Str(t) : t \in DecryptDelimited(d, ddata.s)} = {dout}
    /\ op = "DecryptString" =>
          \A d \in NewDecryptor(dtable) : Decrypt(d, ddata) = {dout}

KnownStrategies == {StrategyMapCode, StrategyTransform, StrategyMapPlaceholder, StrategyPassthrough}

WellFormedRule(rule) ==
    /\ rule.Strategy \in KnownStrategies
    /\ \A j \in 1..Len(rule.Values) : rule.Values[j].k \in {"str", "num"}

\* The decoded body of request i, and whether HMACAuth let it through.
BodyOf(i) == ShouldBindJSON(requests[i].req.bodyBytes)

Reached(i) == requests[i].ctx # EmptyMap

AnonymizeRequest(i) == Endpoint(requests[i].req.bodyBytes) = "anonymize" /\ BodyOf(i).valid

DecryptRequest(i) == Endpoint(requests[i].req.bodyBytes) = "decrypt" /\ BodyOf(i).valid

\* C15 (InvalidRule): a masking call whose rule set holds a rule with an unknown strategy or
\* with match values that are neither strings nor numbers is rejected as a whole: no
\* Anonymizer works on the payload and the response is an error.
InvalidRuleRejected ==
    \A i \in DOMAIN requests :
       (/\ AnonymizeRequest(i)
        /\ \/ requests[i].pc \in {"created", "anonymized"}
           \/ requests[i].pc = "done" /\ requests[i].response.status = StatusOK)
       => \A r \in 1..Len(BodyOf(i).fields["anonymization_rules"]) :
             WellFormedRule(BodyOf(i).fields["anonymization_rules"][r])

\* C16 (EmptyMappingTable): a restore request whose mapping table has no categorical and no
\* placeholder entry (missing, empty, or holding empty maps only) is answered with a
\* client error.
EmptyMappingTableRejected ==
    \A i \in DOMAIN requests :
       (/\ DecryptRequest(i) /\ Reached(i) /\ requests[i].pc = "done"
        /\ KnownTokens(Field(BodyOf(i), "mappings", EmptyMap)) = {})
       => requests[i].response.status = StatusBadRequest

\* C17 (anonymize request validation): an authenticated request with only
\* anonymization_rules in its body is answered 400 "payload must not be empty", one with
\* only a payload (and possibly an empty rule list) 400 "anonymization_rules must not be
\* empty", and no masking is done.
AnonymizeValidation ==
    \A i \in DOMAIN requests :
       (AnonymizeRequest(i) /\ Reached(i) /\ requests[i].pc # "handler") =>
          /\ DOMAIN BodyOf(i).fields = {"anonymization_rules"} =>
                /\ requests[i].pc = "done"
                /\ requests[i].response = ErrorResponse(StatusBadRequest, "payload must not be empty")
          /\ (\/ DOMAIN BodyOf(i).fields = {"payload"}
              \/ /\ DOMAIN BodyOf(i).fields = {"payload", "anonymization_rules"}
                 /\ BodyOf(i).fields["anonymization_rules"] = << >>) =>
                /\ requests[i].pc = "done"
                /\ requests[i].response = ErrorResponse(StatusBadRequest, "anonymization_rules must not be empty")

\* The value a client put into the header under key, empty when it put none.
RECURSIVE Sent(_, _)
Sent(pairs, key) ==
    IF pairs = << >> THEN << >>
    ELSE IF Head(pairs)[1] = key THEN Head(pairs)[2] ELSE Sent(Tail(pairs), key)

\* What the authentication gate asks of a request when the server clock reads now.
Authorized(req, now) ==
    LET systemID == Sent(req.cred.pairs, KeySystemID)
        userID == Sent(req.cred.pairs, KeyUserID)
        timestampStr == Sent(req.cred.pairs, KeyTimestamp)
        signature == Sent(req.cred.pairs, KeySignature)
    IN /\ req.header # << >>
       /\ req.cred.scheme = AuthScheme
       /\ systemID # << >> /\ userID # << >> /\ timestampStr # << >> /\ signature # << >>
       /\ systemID \in DOMAIN GetSystemConfig
       /\ ParseInt(timestampStr).ok
       /\ Abs(now - ParseInt(timestampStr).n) <= TimestampWindow
       /\ signature = generateSignature(GetSystemConfig[systemID].SharedSecret, systemID, userID,
                                         timestampStr, req.bodyBytes)

\* C18 (authentication gate): a request reaches the handler, with system_id and user_id in
\* the context, only if its Authorization header has the scheme MCP-HMAC-SHA256, the four
\* parameters, a configured SystemID, an integer Timestamp within the window of the server
\* clock and the HMAC of SystemID+UserID+Timestamp+SHA256(body) under that system's secret;
\* every other request is answered 401 and the handler never runs.
AuthenticationGate ==
    \A i \in DOMAIN requests :
       requests[i].pc # "received" =>
          IF Authorized(requests[i].req, requests[i].now) /\ requests[i].req.readable
          THEN requests[i].ctx = [system_id |-> Sent(requests[i].req.cred.pairs, KeySystemID),
                                  user_id |-> Sent(requests[i].req.cred.pairs, KeyUserID)]
          ELSE /\ requests[i].pc = "done"
               /\ requests[i].ctx = EmptyMap
               /\ requests[i].response.status = StatusUnauthorized

\* The tokens masking issued and the keys of the mapping table it returns.
TokensIssued(a) == {e.token : e \in a.ghostIssued} \cup TokensOf(GetMappings(a))

\* category_hhhh, h a lowercase hex character
CodeForm(rules, t) ==
    \E i \in 1..Len(rules) :
       /\ Len(t) = Len(rules[i].Type) + 1 + HexLen
       /\ HasPrefix(t, rules[i].Type \o <<"_">>)
       /\ \A j \in (Len(t) - HexLen + 1)..Len(t) : \E h \in 1..Len(HexDigits) : t[j] = HexDigits[h]

\* category_plc_n
PlaceholderForm(a, t) ==
    \E i \in 1..Len(a.rules) : \E n \in 1..a.placeholderCounter : t = PlaceholderName(a.rules[i].Type, n)

\* C19 (token alphabet): every code and placeholder issued, and every key of the returned
\* mapping table, has the form category_hhhh or category_plc_n and contains neither { nor },
\* whatever rules the caller supplied.
TokenAlphabet ==
    \A t \in TokensIssued(anonymizer) :
       /\ CodeForm(anonymizer.rules, t) \/ PlaceholderForm(anonymizer, t)
       /\ \A j \in 1..Len(t) : t[j] \notin {"{", "}"}

\* The placeholders an Anonymizer generated, in the order of their generation.
FreshPlaceholdersOf(a) == SelectSeq(a.ghostFresh, LAMBDA e : e.kind = "plc")

\* Request i was answered 200 by the anonymize handler.
Anonymized(i) ==
    /\ AnonymizeRequest(i)
    /\ requests[i].pc = "done"
    /\ requests[i].response.status = StatusOK

\* C20 (statelessness across requests): under every interleaving of the requests, each
\* anonymize request works on an Anonymizer of its own: it starts empty, the response is one
\* that masking the payload of the request alone can give, its mappings hold exactly the
\* tokens issued for that payload, and its placeholder numbers start at 1.
Statelessness ==
    \A i \in DOMAIN requests :
       /\ (AnonymizeRequest(i) /\ requests[i].pc = "created") =>
             requests[i].anonymizer = NewAnonymizer(BodyOf(i).fields["anonymization_rules"])
       /\ Anonymized(i) =>
             LET response == requests[i].response.body
                 a        == requests[i].anonymizer
             IN /\ \E o \in Anonymize(NewAnonymizer(BodyOf(i).fields["anonymization_rules"]),
                                       BodyOf(i).fields["payload"]) :
                      /\ response.anonymized_payload = o.out
                      /\ response.mappings_to_store = GetMappings(o.a)
                /\ TokensOf(response.mappings_to_store) = {e.token : e \in a.ghostIssued}
                /\ \A k \in 1..Len(FreshPlaceholdersOf(a)) :
                      FreshPlaceholdersOf(a)[k].token = PlaceholderName(FreshPlaceholdersOf(a)[k].cat, k)

\* C20 witness: two requests served together were both answered, and each response maps the
\* placeholder number 1 to the number of its own payload.
StatelessnessWitness ==
    \E i, j \in DOMAIN requests :
       /\ i # j /\ Anonymized(i) /\ Anonymized(j)
       /\ "metric_placeholder_mappings" \in DOMAIN requests[i].response.body.mappings_to_store
       /\ "metric_placeholder_mappings" \in DOMAIN requests[j].response.body.mappings_to_store
       /\ TokP1 \in DOMAIN requests[i].response.body.mappings_to_store["metric_placeholder_mappings"]
       /\ TokP1 \in DOMAIN requests[j].response.body.mappings_to_store["metric_placeholder_mappings"]
       /\ requests[i].response.body.mappings_to_store["metric_placeholder_mappings"][TokP1] = F64(1, 1)
       /\ requests[j].response.body.mappings_to_store["metric_placeholder_mappings"][TokP1] = F64(2, 1)

\* The string leaf s, masked to out, holds every number a rule lists and s spells out in its
\* masked form: the placeholder issued for it, or a value TRANSFORM may draw for it.
NumbersMaskedIn(a, s, out) ==
    \A i \in 1..Len(a.rules) : \A j \in 1..Len(a.rules[i].Values) :
       LET rule == a.rules[i]
           v    == rule.Values[j]
       IN (v.k = "num" /\ Contains(s, FmtV(v))) =>
             /\ rule.Strategy = StrategyMapPlaceholder =>
                   \E e \in a.ghostIssued :
                      e.kind = "plc" /\ e.value = v /\ Contains(out, e.token)
             /\ rule.Strategy = StrategyTransform =>
                   \E y \in transformNumber(v, rule.StrategyParams) : Contains(out, FmtV(y))

RECURSIVE NumbersInTextMasked(_, _, _)
NumbersInTextMasked(a, p, r) ==
    IF p.k = "str" THEN r.k = "str" /\ NumbersMaskedIn(a, p.s, r.s)
    ELSE IF p.k = "arr"
    THEN r.k = "arr" /\ Len(r.items) = Len(p.items)
         /\ \A i \in 1..Len(p.items) : NumbersInTextMasked(a, p.items[i], r.items[i])
    ELSE IF p.k = "obj"
    THEN r.k = "obj" /\ DOMAIN r.m = DOMAIN p.m
         /\ \A key \in DOMAIN p.m : NumbersInTextMasked(a, p.m[key], r.m[key])
    ELSE TRUE

\* C21 (numbers inside text): after a masking call, a number that a MAP_PLACEHOLDER or
\* TRANSFORM rule lists is masked also where a string of the payload spells it out.
NumbersInText ==
    op = "Anonymize" => NumbersInTextMasked(anonymizer, payload, result)

MapCodeOnly(rules) == \A i \in 1..Len(rules) : rules[i].Strategy = StrategyMapCode

\* C22 (structured round trip with bare tokens): a payload masked with MAP_CODE rules and
\* handed back unchanged, with the returned mappings, to the structured Decryptor comes
\* back equal to the original payload.
StructuredRoundTrip ==
    (op = "Decrypt" /\ MapCodeOnly(anonymizer.rules)) => restored = payload

\* t is an integer literal: an optional sign and digits, no decimal point.
IntegerLiteral(t) ==
    LET body == IF t # << >> /\ Head(t) = "-" THEN Tail(t) ELSE t
    IN body # << >> /\ \A i \in 1..Len(body) : IsDigit(body[i])

\* t is a decimal literal: an integer literal, a decimal point and digits.
DecimalLiteral(t) ==
    \E i \in 2..(Len(t) - 1) :
       /\ t[i] = "."
       /\ IntegerLiteral(SubSeq(t, 1, i - 1))
       /\ \A j \in (i + 1)..Len(t) : IsDigit(t[j])

\* The restore call had a text that is one known placeholder in braces, holding a number.
PlaceholderRestored ==
    /\ op = "DecryptText"
    /\ Len(dsegs) = 1 /\ dsegs[1].seg = "braced"
    /\ "metric_placeholder_mappings" \in DOMAIN dtable
    /\ dsegs[1].s \in DOMAIN dtable["metric_placeholder_mappings"]
    /\ dtable["metric_placeholder_mappings"][dsegs[1].s].k = "num"

\* C23 (numeric formatting on restore): a placeholder in a text that resolves to a number
\* without a fractional part is rendered as an integer literal whatever its magnitude, one
\* with a fractional part as a decimal literal, and every restore of it gives the same text.
NumericFormatting ==
    PlaceholderRestored =>
       LET v == dtable["metric_placeholder_mappings"][dsegs[1].s]
       IN /\ v.den = 1 => IntegerLiteral(dout.s)
          /\ v.den # 1 => DecimalLiteral(dout.s)
          /\ \A d \in NewDecryptor(dtable) : DecryptDelimited(d, ddata.s) = {dout.s}

\* The entry recorded when the token of e was generated is in the table, with its original.
Recorded(a, e) ==
    IF e.kind = "code"
    THEN /\ e.cat \in DOMAIN a.categoricalMappings
         /\ e.token \in DOMAIN a.categoricalMappings[e.cat]
         /\ a.categoricalMappings[e.cat][e.token] = e.value.s
    ELSE /\ e.token \in DOMAIN a.metricPlaceholderMappings
         /\ a.metricPlaceholderMappings[e.token] = e.value

\* C24 (append-only mapping table): every entry recorded so far, code or placeholder, is
\* still in the table and still holds the original it was recorded with.
AppendOnlyMappingTable ==
    \A i \in 1..Len(anonymizer.ghostFresh) : Recorded(anonymizer, anonymizer.ghostFresh[i])

\* Every number leaf of p came out as the first rule that lists a number within the
\* tolerance of it makes it, and unchanged when no rule lists such a number.
RECURSIVE NumericMatchLeaves(_, _, _)
NumericMatchLeaves(a, p, r) ==
    IF p.k = "obj" THEN \A key \in DOMAIN p.m : NumericMatchLeaves(a, p.m[key], r.m[key])
    ELSE IF p.k = "arr" THEN \A i \in 1..Len(p.items) : NumericMatchLeaves(a, p.items[i], r.items[i])
    ELSE p.k = "num" =>
           IF Claiming(a.rules, p) = {} THEN r = p
           ELSE AppliedTo(a, FirstClaiming(a.rules, p), p, r)

\* C25 (numeric rule matching): a rule is applied to a payload number n exactly when it lists
\* a number within 1e-4 of n; the strings among the values of a rule never make a number,
\* 0 included, match that rule.
NumericRuleMatching ==
    op = "Anonymize" => NumericMatchLeaves(anonymizer, payload, result)

\* The key of the memo valueToCode under which the generators look an issued pair up.
MemoKey(e) == e.cat \o <<":">> \o (IF e.kind = "code" THEN e.value.s ELSE FmtV(e.value))

\* The two issues are of one pair (category, original value) of one strategy.
SamePair(e1, e2) ==
    /\ e1.kind = e2.kind
    /\ e1.cat = e2.cat
    /\ IF e1.kind = "code" THEN e1.value = e2.value ELSE SameNumber(e1.value, e2.value)

\* C26 (memo keying): two different pairs (category, original value), and a MAP_CODE string
\* and a MAP_PLACEHOLDER number that print alike, never share a memo entry, and every token
\* a generator returned is a key of the matching half of the mapping table.
MemoKeying ==
    /\ \A e1, e2 \in anonymizer.ghostIssued : MemoKey(e1) = MemoKey(e2) => SamePair(e1, e2)
    /\ \A e \in anonymizer.ghostIssued :
         IF e.kind = "code"
         THEN /\ e.cat \in DOMAIN anonymizer.categoricalMappings
              /\ e.token \in DOMAIN anonymizer.categoricalMappings[e.cat]
         ELSE e.token \in DOMAIN anonymizer.metricPlaceholderMappings

\* C27 (inserted codes stay intact): after the first masking call on a string, every code
\* that the call inserted for a literal is still in the output as it was issued, whatever
\* shorter literals were substituted after it.
InsertedCodesIntact ==
    (op = "Anonymize" /\ nops = 1 /\ payload.k = "str") =>
       \A e \in anonymizer.ghostIssued :
          e.kind = "code" => (Contains(result.s, e.token) /\ e.token \in TokensOf(GetMappings(anonymizer)))

\* Response i was sent back to the decrypt operation and answered.
SentBack(i) == Anonymized(i) /\ requests[i].returned # NoResponse

\* C28 as stated (mask-then-restore compatibility): the mappings of every successful
\* anonymize call are accepted by the decrypt operation when sent back unchanged, also when
\* no rule matched anything in the payload.
ReturnedMappingsAccepted ==
    \A i \in DOMAIN requests : SentBack(i) => requests[i].returned.status = StatusOK

\* C28 as amended: the mappings of a successful anonymize call are accepted by the decrypt
\* operation when masking recorded at least one code or placeholder; when no rule matched
\* anything the mappings are the empty object and the decrypt handler rejects them with 400.
ReturnedMappingsAcceptedUnlessEmpty ==
    \A i \in DOMAIN requests :
       SentBack(i) =>
          LET mappings == requests[i].response.body.mappings_to_store
          IN /\ (mappings = EmptyMap) <=> (requests[i].anonymizer.ghostFresh = << >>)
             /\ (mappings # EmptyMap) => requests[i].returned.status = StatusOK
             /\ (mappings = EmptyMap) =>
                   requests[i].returned = ErrorResponse(StatusBadRequest, "mappings must not be empty")

\* C28 witness: one response with mappings was accepted, one without was rejected.
ReturnedMappingsWitness ==
    \E i, j \in DOMAIN requests :
       /\ SentBack(i) /\ SentBack(j)
       /\ requests[i].response.body.mappings_to_store # EmptyMap
       /\ requests[i].returned.status = StatusOK
       /\ requests[j].response.body.mappings_to_store = EmptyMap
       /\ requests[j].returned.status = StatusBadRequest

\* The call left what the caller held as it was and built its result of new cells.
InputKept(given) ==
    /\ Deref(heap.cells, heap.input) = given
    /\ Reach(heap.cells, heap.input) \cap Reach(heap.cells, heap.output) = {}

\* C29 (inputs unchanged): after Anonymize the payload it was given, every nested object and
\* array included, and the rule list are as before the call, and after Decrypt the data it
\* was given; the results are objects and arrays of their own.
InputsUnchanged ==
    /\ op = "Anonymize" => (InputKept(payload) /\ anonymizer.rules = heap.rules)
    /\ op = "DecryptData" => InputKept(ddata)

\* C29 witness: an object holding an array was masked, the string of the object and the
\* number of the array both replaced in the result.
InputsUnchangedWitness ==
    /\ op = "Anonymize"
    /\ payload = Obj([p |-> Str(LitX), q |-> Arr(<<F64(1, 1), Null>>)])
    /\ result.m["p"] # payload.m["p"]
    /\ result.m["q"] # payload.m["q"]
    /\ Cardinality(Reach(heap.cells, heap.input)) = 2
    /\ Cardinality(Reach(heap.cells, heap.output)) = 2

\* The int64 Timestamp the client sent lies more than the window before or after now.
OutsideWindow(req, now) ==
    LET timestamp == ParseInt(Sent(req.cred.pairs, KeyTimestamp))
    IN timestamp.ok /\ (now - timestamp.n > TimestampWindow \/ timestamp.n - now > TimestampWindow)

\* C30 (timestamp window under 64-bit arithmetic): every request whose int64 Timestamp lies
\* more than timestampWindow seconds before or after the server clock is answered 401 and
\* never reaches the handler, a valid signature notwithstanding.
TimestampWindowRejection ==
    \A i \in DOMAIN requests :
       (requests[i].pc # "received" /\ OutsideWindow(requests[i].req, requests[i].now)) =>
          /\ requests[i].pc = "done"
          /\ requests[i].response.status = StatusUnauthorized

====
